---- MODULE Spec2Model ----
(***************************************************************************)
(* A model of ssh2dns (github.com/fudanchii/ssh2dns), internal/ packages:  *)
(*   - internal/ssh:    ClientPool, trackErrLoopback, ExchangeWithContext  *)
(*   - internal/cache:  Cache.Get / Cache.Set / keying                     *)
(*   - internal/proxy:  Proxy.handler, singleFlightRequestHandler          *)
(*   - internal/recdns: LookupCoordinator.Handle and its recursion         *)
(* Each component has its own next-state relation and specification over   *)
(* the one list of variables; a component's actions leave the variables of *)
(* the other components unchanged.                                         *)
(***************************************************************************)
EXTENDS Integers, Sequences, FiniteSets, TLC

(***************************************************************************)
(* Bounds of the model.                                                    *)
(***************************************************************************)
\* number of tunnel sessions the pool may hold (cfg.WorkerNum(), flag -w)
WorkerNum == 1
\* signals emitted by exchanges and not yet consumed by trackErrLoopback, plus
\* reconnect goroutines alive: an exchange emits a signal only below this
MaxPending == 2
\* the simulated clock of the cache runs from 0 to MaxClock seconds
MaxClock == 4
\* the TTLs of the records offered to the cache are 0..MaxTtl seconds
MaxTtl == 1
\* requests received by the proxy in one behaviour
NumRequests == 3
\* root servers in rootMap (the root hints have more)
NumRoots == 1
\* upstream responses read during one Handle
MaxResponses == 2
\* clients in the pool that Handle draws from (puddle.Config.MaxSize, the
\* cfg.WorkerNum() of the configuration the lookup runs under)
MaxSize == 2
\* lines of the known-hosts file
MaxLines == 2
\* sender goroutines and buffered signals when senders pile up: one more than
\* the channel holds
MaxSenders == 6
\* senders of one kind of signal that have not sent yet, when senders pile up
MaxWaiting == 1
\* address records in the largest response on the wire
MaxAnswers == 15

(***************************************************************************)
(* Program constants.                                                      *)
(***************************************************************************)
maxErrThreshold == 5

VARIABLES
    \* ---- internal/ssh: ClientPool ----
    errCounter,     \* ClientPool.errCounter (atomic.Uint32)
    reconnecting,   \* ClientPool.reconnecting (atomic.Bool)
    echan,          \* the buffered channel echan (capacity maxErrThreshold)
    sending,        \* goroutines `go func() { errLoopBack <- e }()` not yet delivered
    tracker,        \* position of the trackErrLoopback loop and the signal it holds
    rtasks,         \* detached reconnect goroutines, counted by position
    clients,        \* puddle pool resources
    dialable,       \* whether ssh.Dial to the remote address succeeds now
    lastCall,       \* the last call a lookup made on the pool or on a client, and its result
    resetCleared,   \* history: the tracker's last write of errCounter was a reset of a count above zero
    watch,          \* history: runs of failed exchanges, signals counted since the pool was last Healthy
    \* ---- internal/cache: Cache ----
    store,          \* the ristretto store: key -> dnsCacheContent
    now,            \* time.Now(), in seconds
    lastGet,        \* the last Cache.Get: its key, what it returned, whether the entry had expired
    lastSet,        \* history: the Cache.Set just made by a caller of the cache, if no call or second came after it
    \* ---- internal/proxy: Proxy ----
    requests,       \* the handler goroutines: position, request, the flight joined, what was received
    flights,        \* singleflight.Group: key -> the call in progress (named by its leader)
    calls,          \* the singleflight calls and the worker task of each
    shutdown,       \* Proxy.Shutdown: its position, and whether the process panicked
    lookups,        \* per call: the goroutine of Handle runs on after Handle returned
    \* ---- internal/recdns: LookupCoordinator, one call of Handle ----
    recursive,      \* lc.recursive
    threads,        \* the call stacks of Handle and of the goroutine it starts
    ctxs,           \* ctx of Handle and ctx of fallbackLookup: "none", "live" or "done"
    chans,          \* msgChan and errChan of Handle, each of capacity 1
    handleRet,      \* what Handle returned
    exchanges,      \* history: the streams opened, in order: server, message, response read
    fbCalls,        \* history: handleRecursive calls made by fallbackLookup
    crashed,        \* the process died of a nil pointer dereference
    \* ---- internal/ssh: one call of Client.ExchangeWithContext ----
    xcall,          \* the caller: its position and what ExchangeWithContext returned
    xctx,           \* ctx of the exchange: "live" or "done"
    dialer,         \* the goroutine of DialTCPWithContext and its two channels
    stream,         \* the stream inside the tunnel: its state and the bytes on their way
    writer,         \* the goroutine of WriteMsgWithContext and its errChan
    reader,         \* the goroutine of ReadMsgWithContext: ReadMsg and its channels
    \* ---- internal/ssh: safeHostKeyCallback ----
    hostkey,        \* the configuration, the known-hosts file, the callback made, a handshake
    \* ---- internal/cache: one entry, its TTL kept with all its 32 bits ----
    ttlEntry        \* dnsCacheContent.Ts and the TTL it was set with, and what Get made of it

poolVars == <<errCounter, reconnecting, echan, sending, tracker, rtasks, clients,
              dialable, lastCall, resetCleared>>

cacheVars == <<store, now, lastGet, lastSet>>

proxyVars == <<requests, flights, calls>>

serverVars == <<shutdown, lookups>>

lookupVars == <<recursive, threads, ctxs, chans, handleRet, exchanges, fbCalls, crashed>>

exchVars == <<xcall, xctx, dialer, stream, writer, reader>>

\* the components added to the four above
sideVars == <<exchVars, hostkey, ttlEntry>>

vars == <<poolVars, watch, cacheVars, proxyVars, serverVars, lookupVars, sideVars>>

\* what the actions of one component leave alone
\* the variables of the other components
notPoolState == <<cacheVars, proxyVars, serverVars, lookupVars, sideVars>>
notPoolVars == <<notPoolState, watch>>
notCacheVars == <<poolVars, watch, proxyVars, serverVars, lookupVars, sideVars>>
notProxyVars == <<poolVars, watch, lookupVars, sideVars>>
notLookupVars == <<poolVars, watch, proxyVars, serverVars, now, lastGet, lastSet, sideVars>>
notExchVars == <<poolVars, watch, cacheVars, proxyVars, serverVars, lookupVars, hostkey,
                 ttlEntry>>
notHostKeyVars == <<poolVars, watch, cacheVars, proxyVars, serverVars, lookupVars, exchVars,
                    ttlEntry>>
notTtlVars == <<poolVars, watch, store, lastGet, lastSet, proxyVars, serverVars, lookupVars,
                exchVars, hostkey>>

(***************************************************************************)
(* internal/ssh/connect.go, internal/ssh/dns_client.go                     *)
(***************************************************************************)
errResetErrCount == "reset"
DNSDialErr == "DNSDialErr"
errReconnecting == "reconnecting"

Signals == {errResetErrCount, DNSDialErr}

ClientIds == 1..WorkerNum

NumTasks == rtasks["reset"] + rtasks["setflag"] + rtasks["attempt"]
            + rtasks["clearflag"] + rtasks["zero"] + rtasks["sleep"]

InFlight == sending[errResetErrCount] + sending[DNSDialErr] + Len(echan)

\* NewClientPool: echan is empty, one client was acquired and released, the
\* counters are zero, the tracker goroutine waits on the channel.
InitPool ==
    LET
        \* positions of a reconnect goroutine (connect.go:177-200)
        RPcs == {"reset", "setflag", "attempt", "clearflag", "zero", "sleep"}
    IN
    /\ errCounter = 0
    /\ reconnecting = FALSE
    /\ echan = <<>>
    /\ sending = [s \in Signals |-> 0]
    /\ tracker = [pc |-> "recv", err |-> "none"]
    /\ rtasks = [p \in RPcs |-> 0]
    /\ clients = [i \in ClientIds |-> IF i = 1 THEN "idle" ELSE "none"]
    /\ dialable = TRUE
    /\ lastCall = [op |-> "NewClientPool", ret |-> "none", cli |-> FALSE]
    /\ resetCleared = FALSE
    /\ watch = [streak |-> 0, longest |-> 0, counted |-> 0]

\* ---- puddle.Pool ----
\* (mutant) a pool that lends again a client that was lent when it was reset
Lendable_AfterReset(st) == st \in {"idle", "heldStale"}

\* puddle lends a resource from its idle list only
Lendable(st) == st = "idle"

HasIdle == \E i \in ClientIds : Lendable(clients[i])
HasRoom == \E i \in ClientIds : clients[i] = "none"
SomeRoom == CHOOSE i \in ClientIds : clients[i] = "none"

\* ---- the senders of signals: go func() { sshCli.errLoopBack <- e }() ----
SendSignal(s) ==
    /\ sending[s] > 0
    /\ Len(echan) < maxErrThreshold
    /\ echan' = Append(echan, s)
    /\ sending' = [sending EXCEPT ![s] = @ - 1]
    /\ UNCHANGED <<errCounter, reconnecting, tracker, rtasks, clients, dialable,
                   lastCall, resetCleared>>
    /\ UNCHANGED notPoolVars

\* ---- trackErrLoopback (connect.go:160-203) ----
\* (mutant) a loop that runs the reset and the retry loop itself
CanReceive_Inline(tasks) == tasks = 0

\* go func() {...}(): the loop goes on to the next signal whatever the
\* reconnect goroutines it started are doing
CanReceive(tasks) == TRUE

\* for err := range echan
TrackRecv ==
    /\ tracker.pc = "recv"
    /\ CanReceive(NumTasks)
    /\ echan # <<>>
    /\ tracker' = [pc |-> "chk", err |-> Head(echan)]
    /\ echan' = Tail(echan)
    /\ UNCHANGED <<errCounter, reconnecting, sending, rtasks, clients, dialable,
                   lastCall, resetCleared>>
    /\ UNCHANGED notPoolVars

\* if cp.reconnecting.Load() { continue }; if err == errResetErrCount {...}
TrackCheck ==
    /\ tracker.pc = "chk"
    /\ tracker' = IF reconnecting
                  THEN [pc |-> "recv", err |-> "none"]
                  ELSE IF tracker.err = errResetErrCount
                       THEN [tracker EXCEPT !.pc = "store0"]
                       ELSE [tracker EXCEPT !.pc = "add"]
    /\ UNCHANGED <<errCounter, reconnecting, echan, sending, rtasks, clients,
                   dialable, lastCall, resetCleared>>
    /\ UNCHANGED notPoolVars

\* (mutant) a reset signal that leaves the count as it is
ResetValue_Keep(n) == n

\* the value trackErrLoopback stores for a reset signal
ResetValue(n) == 0

\* cp.errCounter.Store(0); continue
TrackReset ==
    /\ tracker.pc = "store0"
    /\ errCounter' = ResetValue(errCounter)
    /\ resetCleared' = (errCounter > 0)
    /\ tracker' = [pc |-> "recv", err |-> "none"]
    /\ UNCHANGED <<reconnecting, echan, sending, rtasks, clients, dialable, lastCall>>
    /\ UNCHANGED notPoolVars

\* cp.errCounter.Add(1)
TrackAdded ==
    /\ tracker.pc = "add"
    /\ errCounter' = errCounter + 1
    /\ resetCleared' = FALSE
    /\ tracker' = [tracker EXCEPT !.pc = "cmp"]
    /\ UNCHANGED <<reconnecting, echan, sending, rtasks, clients, dialable, lastCall>>
    /\ UNCHANGED notPoolState

TrackAdd == TrackAdded /\ UNCHANGED watch

\* if cp.errCounter.Load() >= maxErrThreshold { go func() {...}() }
TrackCompare ==
    /\ tracker.pc = "cmp"
    /\ rtasks' = IF errCounter >= maxErrThreshold
                 THEN [rtasks EXCEPT !["reset"] = @ + 1]
                 ELSE rtasks
    /\ tracker' = [pc |-> "recv", err |-> "none"]
    /\ UNCHANGED <<errCounter, reconnecting, echan, sending, clients, dialable,
                   lastCall, resetCleared>>
    /\ UNCHANGED notPoolVars

\* ---- the reconnect goroutine (connect.go:177-200) ----
MoveTask(from, to) ==
    [rtasks EXCEPT ![from] = @ - 1, ![to] = @ + 1]

\* cp.pool.Reset()
ReconnectReset ==
    LET
        \* puddle.Pool.Reset: idle resources are destroyed, checked-out resources are
        \* destroyed when they come back.
        PoolReset(cl) ==
            [i \in ClientIds |->
                CASE cl[i] = "idle" -> "none"
                  [] cl[i] = "held" -> "heldStale"
                  [] OTHER -> cl[i]]
    IN
    /\ rtasks["reset"] > 0
    /\ clients' = PoolReset(clients)
    /\ rtasks' = MoveTask("reset", "setflag")
    /\ UNCHANGED <<errCounter, reconnecting, echan, sending, tracker, dialable,
                   lastCall, resetCleared>>
    /\ UNCHANGED notPoolVars

\* cp.reconnecting.Store(true)
ReconnectSetFlag ==
    /\ rtasks["setflag"] > 0
    /\ reconnecting' = TRUE
    /\ rtasks' = MoveTask("setflag", "attempt")
    /\ UNCHANGED <<errCounter, echan, sending, tracker, clients, dialable, lastCall,
                   resetCleared>>
    /\ UNCHANGED notPoolVars

\* cli, err := cp.pool.Acquire(ctx) with a 5 s deadline; cancel(); on success
\* cli.Release(): an idle client is taken and given back, or a new one is
\* constructed (the tunnel is dialled) and given back
ReconnectAttempt ==
    LET
        \* where the goroutine goes after a failed cp.pool.Acquire: time.Sleep, then the
        \* next round of the for loop
        AfterFailedAttempt == "sleep"
    IN
    /\ rtasks["attempt"] > 0
    /\ IF HasIdle
       THEN /\ clients' = clients
            /\ rtasks' = MoveTask("attempt", "clearflag")
       ELSE IF HasRoom /\ dialable
       THEN /\ clients' = [clients EXCEPT ![SomeRoom] = "idle"]
            /\ rtasks' = MoveTask("attempt", "clearflag")
       ELSE /\ clients' = clients
            /\ rtasks' = MoveTask("attempt", AfterFailedAttempt)
    /\ UNCHANGED <<errCounter, reconnecting, echan, sending, tracker, dialable,
                   lastCall, resetCleared>>
    /\ UNCHANGED notPoolVars

\* time.Sleep(sleepDuration), back to the head of the loop
ReconnectSleep ==
    /\ rtasks["sleep"] > 0
    /\ rtasks' = MoveTask("sleep", "attempt")
    /\ UNCHANGED <<errCounter, reconnecting, echan, sending, tracker, clients,
                   dialable, lastCall, resetCleared>>
    /\ UNCHANGED notPoolVars

\* cp.reconnecting.Store(false)
ReconnectFlagCleared ==
    /\ rtasks["clearflag"] > 0
    /\ reconnecting' = FALSE
    /\ rtasks' = MoveTask("clearflag", "zero")
    /\ UNCHANGED <<errCounter, echan, sending, tracker, clients, dialable, lastCall,
                   resetCleared>>
    /\ UNCHANGED notPoolState

ReconnectClearFlag == ReconnectFlagCleared /\ UNCHANGED watch

\* cp.errCounter.Store(0); break
ReconnectZero ==
    /\ rtasks["zero"] > 0
    /\ errCounter' = 0
    /\ rtasks' = [rtasks EXCEPT !["zero"] = @ - 1]
    /\ UNCHANGED <<reconnecting, echan, sending, tracker, clients, dialable, lastCall,
                   resetCleared>>
    /\ UNCHANGED notPoolVars

\* ---- ClientPool.Acquire (connect.go:205-211) ----
\* (mutant) an Acquire that does not look at the flag
AcquireGate_Ignore(flag) == "none"

\* the result of Acquire's first statement, given the flag it loads
AcquireGate(flag) == IF flag THEN errReconnecting ELSE "none"

\* if cp.reconnecting.Load() { return nil, errReconnecting }
\* return cp.pool.Acquire(ctx): an idle client, else a new one when there is
\* room (the constructor dials the tunnel), else the error of the constructor
\* or of ctx, whose deadline passes while every client is lent.
\* Any lookup may call it: a lookup that holds a client is a "held" client.
Acquire ==
    LET
        SomeIdle == CHOOSE i \in ClientIds : Lendable(clients[i])
    IN
    /\ IF AcquireGate(reconnecting) # "none"
       THEN /\ clients' = clients
            /\ lastCall' = [op |-> "Acquire", ret |-> AcquireGate(reconnecting), cli |-> FALSE]
       ELSE IF HasIdle
       THEN /\ clients' = [clients EXCEPT ![SomeIdle] = "held"]
            /\ lastCall' = [op |-> "Acquire", ret |-> "none", cli |-> TRUE]
       ELSE IF HasRoom /\ dialable
       THEN /\ clients' = [clients EXCEPT ![SomeRoom] = "held"]
            /\ lastCall' = [op |-> "Acquire", ret |-> "none", cli |-> TRUE]
       ELSE /\ clients' = clients
            /\ lastCall' = [op |-> "Acquire", ret |-> "pool", cli |-> FALSE]
    /\ UNCHANGED <<errCounter, reconnecting, echan, sending, tracker, rtasks, dialable,
                   resetCleared>>
    /\ UNCHANGED notPoolVars

\* ---- Client.ExchangeWithContext (dns_client.go:10-33) ----
ExchangeOutcomes == {"DNSDialErr", "DNSWriteErr", "DNSReadErr", "ok"}

\* cli.Value().ExchangeWithContext(...) of handleRecursive on the client it
\* holds, followed by its deferred cli.Release()
Exchange(i, outcome) ==
    LET
        \* the signals an exchange with this outcome hands to a sender goroutine
        SignalOf(outcome0) ==
            CASE outcome0 = "DNSDialErr" -> {DNSDialErr}
              [] outcome0 = "ok" -> {errResetErrCount}
              [] OTHER -> {}
    IN
    LET
        \* puddle Resource.Release
        PoolRelease(cl, i0) ==
            [cl EXCEPT ![i0] = IF cl[i0] = "held" THEN "idle" ELSE "none"]
    IN
    /\ clients[i] \in {"held", "heldStale"}
    /\ SignalOf(outcome) # {} => InFlight + NumTasks < MaxPending
    /\ sending' = [s \in Signals |->
                      IF s \in SignalOf(outcome) THEN sending[s] + 1 ELSE sending[s]]
    /\ clients' = PoolRelease(clients, i)
    /\ lastCall' = [op |-> "Exchange",
                    ret |-> IF outcome = "ok" THEN "none" ELSE outcome,
                    cli |-> FALSE]
    /\ UNCHANGED <<errCounter, reconnecting, echan, tracker, rtasks, dialable,
                   resetCleared>>
    /\ UNCHANGED notPoolState

ExchangeWithContext(i, outcome) == Exchange(i, outcome) /\ UNCHANGED watch

\* the tunnel endpoint goes away or comes back
TunnelChange ==
    /\ dialable' = ~dialable
    /\ UNCHANGED <<errCounter, reconnecting, echan, sending, tracker, rtasks, clients,
                   lastCall, resetCleared>>
    /\ UNCHANGED notPoolVars

TrackerStep == TrackRecv \/ TrackCheck \/ TrackReset \/ TrackAdd \/ TrackCompare

ReconnectStep ==
    \/ ReconnectReset
    \/ ReconnectSetFlag
    \/ ReconnectAttempt
    \/ ReconnectSleep
    \/ ReconnectClearFlag
    \/ ReconnectZero

CallerStep ==
    \/ Acquire
    \/ \E i \in ClientIds, o \in ExchangeOutcomes : ExchangeWithContext(i, o)

NextPool ==
    \/ \E s \in Signals : SendSignal(s)
    \/ TrackerStep
    \/ ReconnectStep
    \/ CallerStep
    \/ TunnelChange

\* go func() { sshCli.errLoopBack <- e }() of an exchange of any lookup: the
\* sender goroutines of earlier exchanges may all be alive still
Emit(s) ==
    /\ InFlight < MaxSenders
    /\ sending[s] < MaxWaiting
    /\ s = DNSDialErr => InFlight + NumTasks < MaxPending
    /\ sending' = [sending EXCEPT ![s] = @ + 1]
    /\ UNCHANGED <<errCounter, reconnecting, echan, tracker, rtasks, clients, dialable,
                   lastCall, resetCleared>>
    /\ UNCHANGED notPoolVars

\* the senders, the consumer and the reconnect goroutines
NextSignals ==
    \/ \E s \in Signals : Emit(s)
    \/ \E s \in Signals : SendSignal(s)
    \/ TrackerStep
    \/ ReconnectStep
    \/ TunnelChange

\* the pool with its exchanges and its counting observed: watch.counted is
\* the number of signals counted since the pool was last Healthy again,
\* watch.streak the run of failed exchanges up to the last one that returned,
\* watch.longest the longest run so far; each stops at the threshold
NextWatchedPool ==
    LET UpTo(n) == IF n < maxErrThreshold THEN n + 1 ELSE n
        Streak(w, outcome) ==
            LET n == IF outcome = "ok" THEN 0 ELSE UpTo(w.streak)
            IN [w EXCEPT !.streak = n, !.longest = IF n > @ THEN n ELSE @]
    IN
    \/ \E s \in Signals : SendSignal(s)
    \/ TrackRecv \/ TrackCheck \/ TrackReset \/ TrackCompare
    \/ TrackAdded /\ watch' = [watch EXCEPT !.counted = UpTo(@)]
    \/ ReconnectReset \/ ReconnectSetFlag \/ ReconnectAttempt \/ ReconnectSleep
    \/ ReconnectZero
    \/ ReconnectFlagCleared /\ watch' = [watch EXCEPT !.counted = 0]
    \/ Acquire
    \/ \E i \in ClientIds, o \in ExchangeOutcomes :
          Exchange(i, o) /\ watch' = Streak(watch, o)
    \/ TunnelChange

(***************************************************************************)
(* DNS messages (github.com/miekg/dns), as far as the program reads them   *)
(***************************************************************************)
\* the record types the program tells apart, with their wire codes
dnsType == [A |-> 1, NS |-> 2, CNAME |-> 5, SOA |-> 6, TXT |-> 16]

NoAddr == <<"none", 0>>

\* a resource record: Header().Name, Header().Rrtype, Header().Ttl, the name
\* an NS, SOA or CNAME record points to and the address of an A record
RR(name, type, ttl, target, addr) ==
    [Name |-> name, Rrtype |-> type, Ttl |-> ttl, Target |-> target, A |-> addr]

Question(name, qtype) == [Name |-> name, Qtype |-> qtype]

\* a *dns.Msg; the nil pointer is a value of its own
Msg(question, answer, ns, extra) ==
    [nil |-> FALSE, Question |-> question, Answer |-> answer, Ns |-> ns, Extra |-> extra]

NilMsg == [nil |-> TRUE, Question |-> <<>>, Answer |-> <<>>, Ns |-> <<>>, Extra |-> <<>>]

qa == Question("a.", dnsType.A)
qb == Question("b.", dnsType.A)

Request(ql) == Msg(ql, <<>>, <<>>, <<>>)

(***************************************************************************)
(* internal/cache/cache.go                                                 *)
(***************************************************************************)
RECURSIVE keyingFrom(_, _)
keyingFrom(qs, key) ==
    IF qs = <<>>
    THEN key
    ELSE keyingFrom(Tail(qs),
                    key \o Head(qs).Name \o ":" \o ToString(Head(qs).Qtype) \o ",")

\* keying: key += fmt.Sprintf("%s:%d,", q.Name, q.Qtype) for each question
keying(req) == keyingFrom(req.Question, "")

\* (mutant) the authority section looked at before the answer section
getFirstAvailableSection_NsFirst(msg) ==
    IF Len(msg.Ns) > 0 THEN msg.Ns[1]
    ELSE IF Len(msg.Answer) > 0 THEN msg.Answer[1]
    ELSE msg.Extra[1]

\* getFirstAvailableSection (cache.go:106-116)
getFirstAvailableSection(msg) ==
    IF Len(msg.Answer) > 0 THEN msg.Answer[1]
    ELSE IF Len(msg.Ns) > 0 THEN msg.Ns[1]
    ELSE msg.Extra[1]

\* an int64, as time.Duration is, by its eight bytes, the lowest first; n is
\* a number below 2^31
Int64(n) ==
    [i \in 1..8 |-> IF i = 1 THEN n % 256
                    ELSE IF i = 2 THEN (n \div 256) % 256
                    ELSE IF i = 3 THEN (n \div 65536) % 256
                    ELSE IF i = 4 THEN n \div 16777216
                    ELSE 0]

\* the product of two int64 values as Go computes it: its low 64 bits
Mul64(a, b) ==
    LET RECURSIVE Column(_, _)
        Column(k, i) == IF i > k THEN 0 ELSE a[i] * b[k + 1 - i] + Column(k, i + 1)
        RECURSIVE From(_, _)
        From(k, carry) ==
            IF k > 8
            THEN <<>>
            ELSE LET sum == carry + Column(k, 1)
                 IN <<sum % 256>> \o From(k + 1, sum \div 256)
    IN From(1, 0)

\* actualval.Ttl * 3 * time.Second (cache.go:54), in nanoseconds
Duration(ttl) == Mul64(Mul64(ttl, Int64(3)), Int64(1000000000))

\* a < b, for two int64 values that are not negative
Less64(a, b) ==
    LET RECURSIVE Below(_)
        Below(i) == IF i = 0 THEN FALSE
                    ELSE IF a[i] # b[i] THEN a[i] < b[i]
                    ELSE Below(i - 1)
    IN Below(8)

\* time.Now().After(Ts.Add(d)), when Now() is Ts and elapsed whole seconds: a
\* negative d puts the instant before Ts
After(elapsed, d) ==
    IF d[8] >= 128
    THEN TRUE
    ELSE Less64(d, Mul64(Int64(elapsed), Int64(1000000000)))

\* time.Now().After(Ts.Add(Ttl * 3 * time.Second)), in seconds, for the TTLs
\* up to MaxTtl, whose product stays far inside the int64
Expired(e, t) == t > e.Ts + e.Ttl * 3

\* Cache.Get (cache.go:45-63) on store st at time t: what it returns, whether
\* the entry it found had expired, and the store it leaves
Get(st, t, req) ==
    LET
        \* what Cache.Get returns for an entry found in the store, given whether it
        \* has expired: the request with the entry's sections, and true
        GetFound(req0, e, expired) ==
            [hit |-> TRUE,
             msg |-> [req0 EXCEPT !.Answer = e.Answer, !.Ns = e.Ns, !.Extra = e.Extra]]
    IN
    LET
        StoreDel(st1, k) == [x \in DOMAIN st1 \ {k} |-> st1[x]]
    IN
    IF keying(req) \notin DOMAIN st
    THEN [hit |-> FALSE, msg |-> NilMsg, expired |-> FALSE, store |-> st]
    ELSE LET e == st[keying(req)]
         IN [hit |-> GetFound(req, e, Expired(e, t)).hit,
             msg |-> GetFound(req, e, Expired(e, t)).msg,
             expired |-> Expired(e, t),
             store |-> IF Expired(e, t) THEN StoreDel(st, keying(req)) ELSE st]

\* Cache.Set (cache.go:65-80) on store st at time t: the store it leaves.
\* rc.Set may drop the item (admitted = FALSE); its result is not read.
Set(st, t, req, msg, admitted) ==
    LET
        StoreSet(st0, k, e) == [x \in DOMAIN st0 \cup {k} |-> IF x = k THEN e ELSE st0[x]]
    IN
    IF Len(msg.Answer) = 0 /\ Len(msg.Ns) = 0 /\ Len(msg.Extra) = 0
    THEN st
    ELSE IF admitted
    THEN StoreSet(st, keying(req),
                  [Ts |-> t,
                   Ttl |-> getFirstAvailableSection(msg).Ttl,
                   Answer |-> msg.Answer,
                   Ns |-> msg.Ns,
                   Extra |-> msg.Extra])
    ELSE st

RootAddr(i) == <<"root", i>>
\* LookupCoordinator.setup: lc.cache.SetFromRR(rr) for the root hints 1..n
RECURSIVE setup(_, _)
setup(n, st) ==
    LET
        RootHint(i) ==
            LET
                \* the A records of the root hints: lc.rootMap
                RootName(i1) == "root" \o ToString(i1) \o "."
            IN
                       RR(RootName(i), dnsType.A, MaxTtl, "", RootAddr(i))
    IN
    IF n = 0
    THEN st
    ELSE Set(setup(n - 1, st), 0,
             Request(<<Question(RootHint(n).Name, RootHint(n).Rrtype)>>),
             Msg(<<>>, <<RootHint(n)>>, <<>>, <<>>), TRUE)

NoSet == [fresh |-> FALSE, key |-> "", msg |-> NilMsg]

InitCache ==
    /\ store = setup(NumRoots, <<>>)
    /\ now = 0
    /\ lastGet = [key |-> "", hit |-> FALSE, msg |-> NilMsg, expired |-> FALSE]
    /\ lastSet = NoSet

\* a caller of Cache.Get
CacheGet(req) ==
    LET
        \* the observation of a Cache.Get
        Observed(req1, g) ==
            [key |-> keying(req1), hit |-> g.hit, msg |-> g.msg, expired |-> g.expired]
    IN
    /\ lastGet' = Observed(req, Get(store, now, req))
    /\ lastSet' = NoSet
    /\ store' = Get(store, now, req).store
    /\ now' = now
    /\ UNCHANGED notCacheVars

\* a caller of Cache.Set
CacheSet(req, msg) ==
    /\ \E admitted \in BOOLEAN : store' = Set(store, now, req, msg, admitted)
    /\ lastSet' = [fresh |-> TRUE, key |-> keying(req), msg |-> msg]
    /\ UNCHANGED <<now, lastGet>>
    /\ UNCHANGED notCacheVars

\* a second passes
Tick ==
    /\ now < MaxClock
    /\ now' = now + 1
    /\ lastSet' = NoSet
    /\ UNCHANGED <<store, lastGet>>
    /\ UNCHANGED notCacheVars

\* the question lists of the requests the callers of the cache use: two lists
\* with the same first question
CacheQLists == {<<qa>>, <<qa, qb>>}

NextCache ==
    LET
        \* the messages offered to Cache.Set
        CacheMsgs ==
            {Msg(<<>>, <<RR("a.", dnsType.A, t, "", <<"host", 1>>)>>,
                 <<RR("a.", dnsType.NS, MaxTtl, "ns.", NoAddr)>>, <<>>) : t \in 0..MaxTtl}
            \cup {Msg(<<>>, <<>>, <<RR("a.", dnsType.NS, MaxTtl, "ns.", NoAddr)>>, <<>>),
                  Msg(<<>>, <<>>, <<>>, <<RR("ns.", dnsType.A, 0, "", <<"glue", 1>>)>>),
                  Msg(<<>>, <<>>, <<>>, <<>>)}
    IN
    \/ \E ql \in CacheQLists : CacheGet(Request(ql))
    \/ \E ql \in CacheQLists, m \in CacheMsgs : CacheSet(Request(ql), m)
    \/ Tick

\* ---- one entry whose TTL is any 32-bit value ----
\* Header().Ttl by its four bytes, the lowest first
Uint32(b1, b2, b3, b4) == <<b1, b2, b3, b4>>

NoEntry == [set |-> FALSE, Ts |-> 0, Ttl |-> Uint32(0, 0, 0, 0), got |-> FALSE, at |-> 0,
            expired |-> FALSE]

\* Cache.Set (cache.go:73-79) of a response whose first record has TTL ttl:
\* Ts: time.Now(), Ttl: time.Duration(firstSection.Header().Ttl)
SetTtl(ttl) ==
    /\ ttlEntry' = [NoEntry EXCEPT !.set = TRUE, !.Ts = now, !.Ttl = ttl]
    /\ now' = now
    /\ UNCHANGED notTtlVars

\* Cache.Get (cache.go:51-56) finds the entry: whether it takes it as expired
GetTtl ==
    /\ ttlEntry.set
    /\ ttlEntry' = [ttlEntry EXCEPT
                       !.got = TRUE, !.at = now,
                       !.expired = After(now - ttlEntry.Ts,
                                         Duration(ttlEntry.Ttl \o <<0, 0, 0, 0>>))]
    /\ now' = now
    /\ UNCHANGED notTtlVars

NextTtl ==
    LET
        \* the TTLs of the records set: 0, 1, 2, 2^31 - 1, 2^31, 3074457345,
        \* 3074457346, 2^32 - 1
        Ttls == {Uint32(0, 0, 0, 0), Uint32(1, 0, 0, 0), Uint32(2, 0, 0, 0),
                 Uint32(255, 255, 255, 127), Uint32(0, 0, 0, 128),
                 Uint32(1, 127, 64, 183), Uint32(2, 127, 64, 183),
                 Uint32(255, 255, 255, 255)}
    IN
    \/ \E ttl \in Ttls : SetTtl(ttl)
    \/ GetTtl
    \/ Tick

(***************************************************************************)
(* internal/proxy/handler.go                                               *)
(***************************************************************************)
ReqIds == 1..NumRequests

\* a message with the header fields the handler reads or writes: MsgHdr.Id
\* and MsgHdr.Response
WithHeader(msg, id, response) ==
    [nil |-> msg.nil, Id |-> id, Response |-> response, Question |-> msg.Question,
     Answer |-> msg.Answer, Ns |-> msg.Ns, Extra |-> msg.Extra]

InitProxy ==
    LET
        \* the header id of the request the i-th handler goroutine is started for:
        \* the clients choose ids of their own
        RequestId(i) == i
    IN
    /\ requests = [i \in ReqIds |->
                      [pc |-> "idle", id |-> RequestId(i), ql |-> <<>>, call |-> 0,
                       hit |-> FALSE, msg |-> NilMsg, err |-> "none", rsp |-> NilMsg]]
    /\ flights = <<>>
    /\ calls = [i \in ReqIds |->
                   [state |-> "none", handled |-> 0, msg |-> NilMsg, err |-> "none"]]
    /\ shutdown = [pc |-> "none", panicked |-> FALSE]
    /\ lookups = [i \in ReqIds |-> FALSE]

\* the process runs
Serving == ~shutdown.panicked

\* the key handed to flightGroup.Do:
\* fmt.Sprintf("%s:%d", r.Question[0].Name, r.Question[0].Qtype)
FlightKey(r) == r.Question[1].Name \o ":" \o ToString(r.Question[1].Qtype)

\* (mutant) a group that never finds a call in progress
JoinsFlight_Never(k, fl) == FALSE

\* singleflight.Group.Do: a call for this key is in progress
JoinsFlight(k, fl) == k \in DOMAIN fl

\* worker goroutines running handleRequest
Running == Cardinality({i \in ReqIds : calls[i].state = "running"})

\* (mutant) a reply that takes its id from the message of the lookup
ReplyId_OfResult(r, msg) == msg.Id

\* the id of the reply: rsp.SetReply(r) copies request.Id
ReplyId(r, msg) == r.Id

\* the end of handler, with what the request got
Finished(req, hit, msg, err) ==
    LET
        \* the request r of a handler
        RequestOf(req2) == WithHeader(Request(req2.ql), req2.id, FALSE)
    IN
    LET
        \* what handler writes to the client: nothing on an error or a nil message,
        \* else the reply to r with the non-empty sections of msg
        ReplyOf(r, msg0, err0) ==
            LET
                \* rsp := new(dns.Msg); rsp.SetReply(r): the id of the request, the response
                \* bit, the first question
                SetReply(r0, id) == WithHeader(Msg(<<r0.Question[1]>>, <<>>, <<>>, <<>>), id, TRUE)
            IN
            IF err0 # "none" \/ msg0.nil
            THEN NilMsg
            ELSE [SetReply(r, ReplyId(r, msg0)) EXCEPT
                     !.Answer = msg0.Answer, !.Ns = msg0.Ns, !.Extra = msg0.Extra]
    IN
    [req EXCEPT !.pc = "done", !.hit = hit, !.msg = msg, !.err = err,
                !.rsp = ReplyOf(RequestOf(req), msg, err)]

\* what LookupCoordinator.Handle can return for a request: an answer to its
\* question, an error, or a nil message without an error
AnswerFor(ql) ==
    Msg(ql, <<RR(ql[1].Name, dnsType.A, MaxTtl, "", <<"host", 1>>)>>, <<>>, <<>>)

HandleOutcomes(ql) ==
    {[msg |-> AnswerFor(ql), err |-> "none"],
     [msg |-> NilMsg, err |-> "DomainNotFound"],
     [msg |-> NilMsg, err |-> "none"]}

\* the dns server starts handler(w, r) in a goroutine of its own
Arrive(i, ql) ==
    LET
        \* srv.ListenAndServe reads datagrams until Shutdown stops it
        Listening == shutdown.pc = "none"
    IN
    /\ Serving
    /\ Listening
    /\ requests[i].pc = "idle"
    /\ i > 1 => requests[i - 1].pc # "idle"
    /\ requests' = [requests EXCEPT ![i].pc = "lookup", ![i].ql = ql]
    /\ UNCHANGED <<flights, calls, cacheVars, serverVars, notProxyVars>>

\* msg, hit := proxy.rdns.CacheLookup(r)
HandlerLookup(i) ==
    /\ Serving
    /\ requests[i].pc = "lookup"
    /\ LET r == Request(requests[i].ql)
           g == Get(store, now, r)
       IN /\ store' = g.store
          /\ requests' = [requests EXCEPT ![i] =
                            IF g.hit
                            THEN Finished(@, TRUE, WithHeader(g.msg, @.id, FALSE), "none")
                            ELSE [@ EXCEPT !.pc = "do"]]
    /\ UNCHANGED <<flights, calls, now, lastGet, lastSet, serverVars, notProxyVars>>

\* proxy.flightGroup.Do(key, fn): join the call in progress for the key, or
\* register a new call and run fn.  The key is made of r.Question[0]
\* (handler.go:121): with no question the index is out of range and the panic
\* of the handler goroutine ends the process.
Do(i) ==
    /\ Serving
    /\ requests[i].pc = "do"
    /\ IF requests[i].ql = <<>>
       THEN /\ shutdown' = [shutdown EXCEPT !.panicked = TRUE]
            /\ UNCHANGED <<requests, flights, calls>>
       ELSE /\ LET k == FlightKey(Request(requests[i].ql))
               IN IF JoinsFlight(k, flights)
                  THEN /\ requests' = [requests EXCEPT ![i].pc = "waiting",
                                                       ![i].call = flights[k]]
                       /\ UNCHANGED <<flights, calls>>
                  ELSE /\ requests' = [requests EXCEPT ![i].pc = "submit", ![i].call = i]
                       /\ flights' = [x \in DOMAIN flights \cup {k} |->
                                         IF x = k THEN i ELSE flights[x]]
                       /\ calls' = [calls EXCEPT ![i].state = "created"]
            /\ UNCHANGED shutdown
    /\ UNCHANGED <<cacheVars, lookups, notProxyVars>>

\* proxy.workers.Go(func() { proxy.handleRequest(pReq) }): waits for one of
\* the cfg.WorkerNum() * 2 goroutines of the pool.  While workers.Wait() runs,
\* the task channel is closed and the send of Go on it panics; after Wait has
\* returned the pool is set up anew by the next Go.
WorkersGo(i) ==
    LET
        \* workers.Wait() has closed the task channel of the pool and has not returned
        TasksClosed == shutdown.pc = "waiting"
    IN
    /\ Serving
    /\ requests[i].pc = "submit"
    /\ \/ /\ Running < WorkerNum * 2
          /\ requests' = [requests EXCEPT ![i].pc = "leading"]
          /\ calls' = [calls EXCEPT ![i].state = "running", ![i].handled = @ + 1]
          /\ UNCHANGED shutdown
       \/ /\ TasksClosed
          /\ shutdown' = [shutdown EXCEPT !.panicked = TRUE]
          /\ UNCHANGED <<requests, calls>>
    /\ UNCHANGED <<flights, cacheVars, lookups, notProxyVars>>

\* handleRequest: proxy.rdns.Handle(req.message) returns out, after its
\* successful lookup has called Cache.Set, then one send on errChannel or
\* rspChannel; the message of the lookup answers the request of the leader and
\* carries its id
HandleReturned(i, out) ==
    /\ Serving
    /\ calls[i].state = "running"
    /\ calls' = [calls EXCEPT
                    ![i].state = "returned",
                    ![i].msg = IF out.err # "none" \/ out.msg.nil
                               THEN NilMsg
                               ELSE WithHeader(out.msg, requests[i].id, TRUE),
                    ![i].err = IF out.err # "none"
                               THEN "error handling lookup: " \o out.err
                               ELSE "none"]
    /\ IF out.err = "none" /\ ~out.msg.nil
       THEN \E admitted \in BOOLEAN :
               store' = Set(store, now, Request(requests[i].ql), out.msg, admitted)
       ELSE store' = store
    /\ UNCHANGED <<requests, flights, now, lastGet, lastSet, shutdown, notProxyVars>>

\* the task of a worker, with a Handle whose goroutine has ended when it returns
HandleRequest(i) ==
    /\ calls[i].state = "running"
    /\ \E out \in HandleOutcomes(requests[i].ql) : HandleReturned(i, out)
    /\ UNCHANGED lookups

\* the task of a worker, with a Handle that returns on ctx.Done() with an
\* error (lookup.go:184-185) while the goroutine it started (lookup.go:162-177)
\* is still in its lookup
HandleRequestTimeout(i) ==
    /\ calls[i].state = "running"
    /\ \E out \in HandleOutcomes(requests[i].ql) :
          /\ out.err # "none"
          /\ HandleReturned(i, out)
    /\ lookups' = [lookups EXCEPT ![i] = TRUE]

\* the goroutine of a Handle that has returned ends: its exchange failed, or
\* it read an answer, which handleRecursive gives to Cache.Set
LookupEnds(i) ==
    /\ Serving
    /\ lookups[i]
    /\ lookups' = [lookups EXCEPT ![i] = FALSE]
    /\ \/ store' = store
       \/ \E admitted \in BOOLEAN :
             store' = Set(store, now, Request(requests[i].ql),
                          AnswerFor(requests[i].ql), admitted)
    /\ UNCHANGED <<proxyVars, now, lastGet, lastSet, shutdown, notProxyVars>>

\* the select of fn receives; Do forgets the key and returns to the leader
LeaderReceive(i) ==
    /\ Serving
    /\ requests[i].pc = "leading"
    /\ calls[i].state = "returned"
    /\ calls' = [calls EXCEPT ![i].state = "done"]
    /\ LET k == FlightKey(Request(requests[i].ql))
       IN flights' = [x \in DOMAIN flights \ {k} |-> flights[x]]
    /\ requests' = [requests EXCEPT ![i] = Finished(@, FALSE, calls[i].msg, calls[i].err)]
    /\ UNCHANGED <<cacheVars, serverVars, notProxyVars>>

\* Do returns the value and the error of the call to a caller that joined it
FollowerWake(i) ==
    /\ Serving
    /\ requests[i].pc = "waiting"
    /\ calls[requests[i].call].state = "done"
    /\ requests' = [requests EXCEPT ![i] =
                      Finished(@, FALSE, calls[@.call].msg, calls[@.call].err)]
    /\ UNCHANGED <<flights, calls, cacheVars, serverVars, notProxyVars>>

NextProxy ==
    LET
        \* the question lists of the requests the model sends; the server hands
        \* a message of a header alone to the handler with no question
        QLists == {<<>>, <<qa>>, <<qa, qb>>, <<qb>>}
    IN
    \/ \E i \in ReqIds, ql \in QLists : Arrive(i, ql)
    \/ \E i \in ReqIds : HandlerLookup(i)
    \/ \E i \in ReqIds : Do(i)
    \/ \E i \in ReqIds : WorkersGo(i)
    \/ \E i \in ReqIds : HandleRequest(i)
    \/ \E i \in ReqIds : LeaderReceive(i)
    \/ \E i \in ReqIds : FollowerWake(i)

\* ---- Proxy.Shutdown (handler.go:107-118) ----
\* proxy.srv.ShutdownContext(ctx) is called: the server stops reading datagrams
ShutdownStop ==
    /\ Serving
    /\ shutdown.pc = "none"
    /\ shutdown' = [shutdown EXCEPT !.pc = "draining"]
    /\ UNCHANGED <<proxyVars, lookups, cacheVars, notProxyVars>>

\* ShutdownContext returns, when the handlers have returned or at the deadline
\* of its ctx (5 s); proxy.workers.Wait() closes the task channel of the pool
ShutdownDrained ==
    /\ Serving
    /\ shutdown.pc = "draining"
    /\ shutdown' = [shutdown EXCEPT !.pc = "waiting"]
    /\ UNCHANGED <<proxyVars, lookups, cacheVars, notProxyVars>>

\* proxy.workers.Wait() returns: every worker goroutine has ended
ShutdownWaited ==
    /\ Serving
    /\ shutdown.pc = "waiting"
    /\ Running = 0
    /\ shutdown' = [shutdown EXCEPT !.pc = "closing"]
    /\ UNCHANGED <<proxyVars, lookups, cacheVars, notProxyVars>>

\* proxy.rdns.Close(): lc.clientPool.Close() (lookup.go:242-244)
ShutdownClose ==
    /\ Serving
    /\ shutdown.pc = "closing"
    /\ shutdown' = [shutdown EXCEPT !.pc = "closed"]
    /\ UNCHANGED <<proxyVars, lookups, cacheVars, notProxyVars>>

ShutdownStep == ShutdownStop \/ ShutdownDrained \/ ShutdownWaited \/ ShutdownClose

NextServer ==
    \/ NextProxy
    \/ \E i \in ReqIds : HandleRequestTimeout(i)
    \/ \E i \in ReqIds : LookupEnds(i)
    \/ ShutdownStep

(***************************************************************************)
(* internal/recdns/lookup.go                                               *)
(***************************************************************************)
\* the message given to Handle
HandleMsg == Request(<<qa>>)

fallbackTargetNS == <<"fallback", 0>>
\* newQuestionMsg
newQuestionMsg(domain) == Request(<<Question(domain, dnsType.A)>>)

HasType(rrs, type) == \E k \in 1..Len(rrs) : rrs[k].Rrtype = type

\* ---- call stacks ----
NoRet == [msg |-> NilMsg, err |-> "none"]

Frame(fn, pc, msg, ctx) ==
    [fn |-> fn, pc |-> pc, msg |-> msg, ctx |-> ctx, srv |-> NoAddr, rsp |-> NilMsg,
     i |-> 0, j |-> 0, nextSrv |-> <<>>, err |-> "none"]

Top(t) == threads[t].stack[Len(threads[t].stack)]

At(t, fn, pc) ==
    /\ ~crashed
    /\ threads[t].stack # <<>>
    /\ Top(t).fn = fn
    /\ Top(t).pc = pc

SetTop(st, f) == [st EXCEPT ![Len(st)] = f]

\* the function on top of the stack of t returns (m, e)
Returning(t, m, e) ==
    LET
        Pop(st) == SubSeq(st, 1, Len(st) - 1)
    IN
    threads' = [threads EXCEPT ![t] =
                   [stack |-> Pop(@.stack), ret |-> [msg |-> m, err |-> e]]]

\* the function on top goes on as frame f
Staying(t, f) ==
    threads' = [threads EXCEPT ![t] = [stack |-> SetTop(@.stack, f), ret |-> NoRet]]

\* the function on top, left as frame f, calls the function of frame g
Calling(t, f, g) ==
    threads' = [threads EXCEPT ![t] =
                   [stack |-> Append(SetTop(@.stack, f), g), ret |-> NoRet]]

\* (mutant) a context that never reports its end
CtxErr_Nil(c) == "none"

\* ctx.Err()
CtxErr(c) == IF ctxs[c] = "done" THEN "context deadline exceeded" ELSE "none"

\* errors.DomainNotFound{N: ...}.Wrap(err)
DomainNotFound(err) == "domain not found, cause: " \o err

\* Handle has made its channels and its ctx and has started its goroutine
InitLookup ==
    /\ recursive \in BOOLEAN
    /\ threads = [t \in {"Handle", "go"} |->
                     [stack |-> <<Frame(t, "start", HandleMsg, "ctx")>>, ret |-> NoRet]]
    /\ ctxs = [ctx |-> "live", fb |-> "none"]
    /\ chans = [msg |-> <<>>, err |-> <<>>]
    /\ handleRet = [done |-> FALSE, msg |-> NilMsg, err |-> "none"]
    /\ exchanges = <<>>
    /\ fbCalls = 0
    /\ crashed = FALSE

\* ---- Handle (lookup.go:143-187) ----
\* the goroutine: lc.tryHandleFromRoots(ctx, msg) or fallbackLookup(nil)
GoStart ==
    LET
        \* var msg *dns.Msg declared inside the goroutine of Handle (lookup.go:163-166):
        \* the value of msg where line 168 passes it to tryHandleFromRoots
        GoroutineMsg == NilMsg
    IN
    /\ At("go", "go", "start")
    /\ Calling("go", [Top("go") EXCEPT !.pc = "send"],
               IF recursive
               THEN Frame("tryHandleFromRoots", "loop", GoroutineMsg, "ctx")
               ELSE Frame("fallbackLookup", "call", HandleMsg, "fb"))
    /\ UNCHANGED <<recursive, ctxs, chans, handleRet, exchanges, fbCalls, crashed, store>>
    /\ UNCHANGED notLookupVars

\* errChan <- err or msgChan <- msg
GoSend ==
    /\ At("go", "go", "send")
    /\ chans' = IF threads["go"].ret.err # "none"
                THEN [chans EXCEPT !.err = <<threads["go"].ret.err>>]
                ELSE [chans EXCEPT !.msg = <<threads["go"].ret.msg>>]
    /\ threads' = [threads EXCEPT !["go"] = [stack |-> <<>>, ret |-> NoRet]]
    /\ UNCHANGED <<recursive, ctxs, handleRet, exchanges, fbCalls, crashed, store>>
    /\ UNCHANGED notLookupVars

\* Handle returns (m, e); its deferred cancel() ends ctx
HandleReturns(m, e) ==
    /\ handleRet' = [done |-> TRUE, msg |-> m, err |-> e]
    /\ threads' = [threads EXCEPT !["Handle"] = [stack |-> <<>>, ret |-> NoRet]]
    /\ ctxs' = [ctxs EXCEPT !.ctx = "done"]

\* case msg := <-msgChan: return msg, nil
HandleRecvMsg ==
    /\ At("Handle", "Handle", "start")
    /\ chans.msg # <<>>
    /\ HandleReturns(chans.msg[1], "none")
    /\ chans' = [chans EXCEPT !.msg = <<>>]
    /\ UNCHANGED <<recursive, exchanges, fbCalls, crashed, store>>
    /\ UNCHANGED notLookupVars

\* case err := <-errChan: return fallbackLookup(err)
HandleRecvErr ==
    /\ At("Handle", "Handle", "start")
    /\ chans.err # <<>>
    /\ Calling("Handle", [Top("Handle") EXCEPT !.pc = "fallback"],
               [Frame("fallbackLookup", "call", HandleMsg, "fb") EXCEPT
                   !.err = chans.err[1]])
    /\ chans' = [chans EXCEPT !.err = <<>>]
    /\ UNCHANGED <<recursive, ctxs, handleRet, exchanges, fbCalls, crashed, store>>
    /\ UNCHANGED notLookupVars

\* case <-ctx.Done(): return fallbackLookup(DomainNotFound{...}.Wrap(ctx.Err()))
HandleCtxDone ==
    /\ At("Handle", "Handle", "start")
    /\ ctxs.ctx = "done"
    /\ Calling("Handle", [Top("Handle") EXCEPT !.pc = "fallback"],
               [Frame("fallbackLookup", "call", HandleMsg, "fb") EXCEPT
                   !.err = DomainNotFound(CtxErr("ctx"))])
    /\ UNCHANGED <<recursive, ctxs, chans, handleRet, exchanges, fbCalls, crashed, store>>
    /\ UNCHANGED notLookupVars

\* the return of the fallbackLookup called by the select
HandleFallbackDone ==
    /\ At("Handle", "Handle", "fallback")
    /\ HandleReturns(threads["Handle"].ret.msg, threads["Handle"].ret.err)
    /\ UNCHANGED <<recursive, chans, exchanges, fbCalls, crashed, store>>
    /\ UNCHANGED notLookupVars

\* ---- fallbackLookup (lookup.go:149-160) ----
\* (mutant) a fallbackLookup that always goes on to the fallback resolver
FallbackRefuses_Never(err, rec) == FALSE

\* if err != nil && !lc.recursive { return nil, err }
FallbackRefuses(err, rec) == err # "none" /\ ~rec

FallbackCall(t) ==
    /\ At(t, "fallbackLookup", "call")
    /\ IF FallbackRefuses(Top(t).err, recursive)
       THEN /\ Returning(t, NilMsg, Top(t).err)
            /\ UNCHANGED <<ctxs, fbCalls>>
       ELSE /\ Calling(t, [Top(t) EXCEPT !.pc = "got"],
                       [Frame("handleRecursive", "call", HandleMsg, "fb") EXCEPT
                           !.srv = fallbackTargetNS])
            /\ ctxs' = [ctxs EXCEPT !.fb = "live"]
            /\ fbCalls' = fbCalls + 1
    /\ UNCHANGED <<recursive, chans, handleRet, exchanges, crashed, store>>
    /\ UNCHANGED notLookupVars

\* the return of handleRecursive to fallbackLookup; the deferred cancel()
FallbackReturn(t) ==
    /\ At(t, "fallbackLookup", "got")
    /\ IF threads[t].ret.err # "none"
       THEN Returning(t, NilMsg, DomainNotFound(threads[t].ret.err))
       ELSE Returning(t, threads[t].ret.msg, "none")
    /\ ctxs' = [ctxs EXCEPT !.fb = "done"]
    /\ UNCHANGED <<recursive, chans, handleRet, exchanges, fbCalls, crashed, store>>
    /\ UNCHANGED notLookupVars

\* ---- tryHandleFromRoots (lookup.go:189-201) ----
\* one round of the loop: the result of the last handleRecursive, if any, and
\* the call for the next root
TryHandleFromRoots(t) ==
    /\ At(t, "tryHandleFromRoots", "loop")
    /\ LET f == Top(t)
           r == threads[t].ret
           err == IF f.i > 0 THEN r.err ELSE "none"
       IN IF f.i > 0 /\ r.err = "none" /\ ~r.msg.nil /\ Len(r.msg.Answer) > 0
          THEN Returning(t, r.msg, "none")
          ELSE IF f.i + 1 > NumRoots
          THEN Returning(t, NilMsg, err)
          ELSE IF CtxErr(f.ctx) # "none"
          THEN Returning(t, NilMsg, CtxErr(f.ctx))
          ELSE Calling(t, [f EXCEPT !.i = @ + 1, !.err = err],
                       [Frame("handleRecursive", "call", f.msg, f.ctx) EXCEPT
                           !.srv = RootAddr(f.i + 1)])
    /\ UNCHANGED <<recursive, ctxs, chans, handleRet, exchanges, fbCalls, crashed, store>>
    /\ UNCHANGED notLookupVars

\* the errors of an exchange whose stream was opened; a failed write is
\* handled as a failed read is
StreamErrors == {"DNSReadErr"}

\* errors.ConnectionTimeout{}.Error()
ConnectionTimeout == "connection timeout"

\* errors.DNSReadErr{Cause: cause}
DNSReadErr(cause) == "error reading DNS response: " \o cause

\* the clients of the pool that the calls of handleRecursive on the stack of t
\* hold: cli is acquired at line 47 and released by the defer of line 52 when
\* the call returns
Held(t) ==
    Cardinality({k \in 1..Len(threads[t].stack) :
                    /\ threads[t].stack[k].fn = "handleRecursive"
                    /\ threads[t].stack[k].pc # "call"})

\* the ctx check, Acquire, ExchangeWithContext and the choice between
\* assertAnswerForQuestion and useNextNS.  A nil message makes WriteMsg
\* dereference nil in msg.Pack() once the stream is open.
HandleRecursive(t) ==
    LET
        \* an exchange with a server that takes the query and never answers
        ExchangedSilent(f) ==
            Append(exchanges, [srv |-> f.srv, msg |-> f.msg, rsp |-> NilMsg, silent |-> TRUE])
    IN
    LET
        Exchanged(f, rsp) ==
            Append(exchanges, [srv |-> f.srv, msg |-> f.msg, rsp |-> rsp, silent |-> FALSE])
    IN
    LET
        NumResponses == Cardinality({k \in 1..Len(exchanges) : ~exchanges[k].rsp.nil})
    IN
    LET
        \* ---- handleRecursive (lookup.go:42-68) ----
        AcquireErrors == {errReconnecting}
    IN
    LET
        \* what a server can answer to a question for name n: an A record, a CNAME
        \* alone, a delegation with glue for its NS or for another name, an SOA alone
        \* (no glue), an SOA and an NS (no glue), an authority record that is
        \* neither NS nor SOA, nothing
        Responses(req) ==
            LET
                GlueAddr == <<"glue", 1>>
            IN
            LET n == req.Question[1].Name
            IN {Msg(req.Question, <<RR(n, dnsType.A, MaxTtl, "", <<"host", 1>>)>>, <<>>, <<>>),
                Msg(req.Question, <<RR(n, dnsType.CNAME, MaxTtl, "c.", NoAddr)>>, <<>>, <<>>),
                Msg(req.Question, <<>>, <<RR(n, dnsType.NS, MaxTtl, "ns.", NoAddr)>>,
                    <<RR("ns.", dnsType.A, MaxTtl, "", GlueAddr)>>),
                Msg(req.Question, <<>>, <<RR(n, dnsType.NS, MaxTtl, "ns.", NoAddr)>>,
                    <<RR("other.", dnsType.A, MaxTtl, "", GlueAddr)>>),
                Msg(req.Question, <<>>, <<RR(n, dnsType.SOA, MaxTtl, "ns.", NoAddr)>>, <<>>),
                Msg(req.Question, <<>>, <<RR(n, dnsType.SOA, MaxTtl, "ns.", NoAddr),
                                           RR(n, dnsType.NS, MaxTtl, "ns.", NoAddr)>>, <<>>),
                Msg(req.Question, <<>>, <<RR(n, dnsType.TXT, MaxTtl, "", NoAddr)>>, <<>>),
                Msg(req.Question, <<>>, <<>>, <<>>)}
    IN
    /\ At(t, "handleRecursive", "call")
    /\ LET f == Top(t)
           \* pool.Acquire(ctx) hands out a client, or waits for one: for a
           \* Release or for the end of ctx, whose error it then returns
           acquired == Held("Handle") + Held("go") < MaxSize
       IN IF CtxErr(f.ctx) # "none"
          THEN /\ Returning(t, NilMsg, CtxErr(f.ctx))
               /\ UNCHANGED <<exchanges, crashed>>
          ELSE \/ /\ \E e \in AcquireErrors : Returning(t, NilMsg, e)
                  /\ UNCHANGED <<exchanges, crashed>>
               \/ /\ acquired
                  /\ Returning(t, NilMsg, DNSDialErr)
                  /\ UNCHANGED <<exchanges, crashed>>
               \/ /\ acquired
                  /\ f.msg.nil
                  /\ crashed' = TRUE
                  /\ exchanges' = Exchanged(f, NilMsg)
                  /\ UNCHANGED threads
               \/ /\ acquired
                  /\ ~f.msg.nil
                  /\ \E e \in StreamErrors : Returning(t, NilMsg, e)
                  /\ exchanges' = Exchanged(f, NilMsg)
                  /\ UNCHANGED crashed
               \/ /\ acquired
                  /\ ~f.msg.nil
                  /\ Staying(t, [f EXCEPT !.pc = "reading"])
                  /\ exchanges' = ExchangedSilent(f)
                  /\ UNCHANGED crashed
               \/ /\ acquired
                  /\ ~f.msg.nil
                  /\ NumResponses < MaxResponses
                  /\ \E rsp \in Responses(f.msg) :
                        /\ exchanges' = Exchanged(f, rsp)
                        /\ IF Len(rsp.Answer) > 0
                           THEN Calling(t, [f EXCEPT !.pc = "asserted", !.rsp = rsp],
                                        [Frame("assertAnswerForQuestion", "call", f.msg, f.ctx)
                                            EXCEPT !.rsp = rsp])
                           ELSE Calling(t, [f EXCEPT !.pc = "tail", !.rsp = rsp],
                                        [Frame("useNextNS", "ns", f.msg, f.ctx)
                                            EXCEPT !.rsp = rsp, !.i = 1])
                  /\ UNCHANGED crashed
    /\ UNCHANGED <<recursive, ctxs, chans, handleRet, fbCalls, store>>
    /\ UNCHANGED notLookupVars

\* ReadMsgWithContext on a stream that stays silent: case <-ctx.Done() returns
\* ConnectionTimeout, which ExchangeWithContext wraps in DNSReadErr
HandleRecursiveTimeout(t) ==
    /\ At(t, "handleRecursive", "reading")
    /\ ctxs[Top(t).ctx] = "done"
    /\ Returning(t, NilMsg, DNSReadErr(ConnectionTimeout))
    /\ UNCHANGED <<recursive, ctxs, chans, handleRet, exchanges, fbCalls, crashed, store>>
    /\ UNCHANGED notLookupVars

\* the return of assertAnswerForQuestion: cache and return, or useNextNS
HandleRecursiveAsserted(t) ==
    /\ At(t, "handleRecursive", "asserted")
    /\ IF threads[t].ret.err = "none"
       THEN /\ \E admitted \in BOOLEAN :
                  store' = Set(store, now, Top(t).msg, threads[t].ret.msg, admitted)
            /\ Returning(t, threads[t].ret.msg, "none")
       ELSE /\ store' = store
            /\ Calling(t, [Top(t) EXCEPT !.pc = "tail"],
                       [Frame("useNextNS", "ns", Top(t).msg, Top(t).ctx)
                           EXCEPT !.rsp = Top(t).rsp, !.i = 1])
    /\ UNCHANGED <<recursive, ctxs, chans, handleRet, exchanges, fbCalls, crashed>>
    /\ UNCHANGED notLookupVars

\* return lc.useNextNS(ctx, msg, rspMsg); the deferred cli.Release()
HandleRecursiveTail(t) ==
    /\ At(t, "handleRecursive", "tail")
    /\ Returning(t, threads[t].ret.msg, threads[t].ret.err)
    /\ UNCHANGED <<recursive, ctxs, chans, handleRet, exchanges, fbCalls, crashed, store>>
    /\ UNCHANGED notLookupVars

\* ---- assertAnswerForQuestion (lookup.go:203-228) ----
AssertAnswerForQuestion(t) ==
    /\ At(t, "assertAnswerForQuestion", "call")
    /\ LET f == Top(t)
           answer == f.rsp
       IN IF CtxErr(f.ctx) # "none"
          THEN Returning(t, NilMsg, CtxErr(f.ctx))
          ELSE IF HasType(answer.Answer, f.msg.Question[1].Qtype)
          THEN Returning(t, answer, "none")
          ELSE IF /\ answer.Answer[1].Rrtype = dnsType.CNAME
                  /\ ~HasType(answer.Answer, dnsType.A)
          THEN Calling(t, [f EXCEPT !.pc = "cname"],
                       Frame("tryHandleFromRoots", "loop",
                             newQuestionMsg(answer.Answer[1].Target), f.ctx))
          ELSE Returning(t, answer, "none")
    /\ UNCHANGED <<recursive, ctxs, chans, handleRet, exchanges, fbCalls, crashed, store>>
    /\ UNCHANGED notLookupVars

\* (mutant) the answer left as it came, the records of the target not added
CnameAnswer_Alone(answer, newAnswer) == answer.Answer

\* answer.Answer = append(answer.Answer, newAnswer.Answer...)
CnameAnswer(answer, newAnswer) == answer.Answer \o newAnswer.Answer

\* the return of tryHandleFromRoots for the CNAME target; newAnswer.Answer
\* dereferences a nil newAnswer
AssertCname(t) ==
    /\ At(t, "assertAnswerForQuestion", "cname")
    /\ LET f == Top(t)
           r == threads[t].ret
       IN IF r.err # "none"
          THEN Returning(t, NilMsg, r.err) /\ UNCHANGED crashed
          ELSE IF r.msg.nil
          THEN crashed' = TRUE /\ UNCHANGED threads
          ELSE /\ Returning(t, [f.rsp EXCEPT !.Answer = CnameAnswer(f.rsp, r.msg)], "none")
               /\ UNCHANGED crashed
    /\ UNCHANGED <<recursive, ctxs, chans, handleRet, exchanges, fbCalls, store>>
    /\ UNCHANGED notLookupVars

\* ---- useNextNS (lookup.go:70-141) ----
\* the A records of rrs, for the name when one is given
ARecords(rrs, name) ==
    SelectSeq(rrs, LAMBDA item : item.Rrtype = dnsType.A /\ (name = "" \/ item.Name = name))

\* with nextSrv known: NoARecordsForNS and the next authority record, or
\* handleRecursive on the first address
UseServers(t, f, nextSrv) ==
    IF nextSrv = <<>>
    THEN Staying(t, [f EXCEPT !.pc = "ns", !.i = @ + 1, !.err = "NoARecordsForNS"])
    ELSE IF CtxErr(f.ctx) # "none"
    THEN Returning(t, NilMsg, CtxErr(f.ctx))
    ELSE Calling(t, [f EXCEPT !.pc = "srvgot", !.nextSrv = nextSrv, !.j = 1],
                 [Frame("handleRecursive", "call", f.msg, f.ctx) EXCEPT
                     !.srv = nextSrv[1].A])

\* one authority record of the response, up to the call it leads to
UseNextNS(t) ==
    /\ At(t, "useNextNS", "ns")
    /\ LET f == Top(t)
           response == f.rsp
       IN IF f.i > Len(response.Ns)
          THEN Returning(t, NilMsg, f.err) /\ store' = store
          ELSE IF CtxErr(f.ctx) # "none"
          THEN Returning(t, NilMsg, CtxErr(f.ctx)) /\ store' = store
          ELSE IF response.Ns[f.i].Rrtype \notin {dnsType.NS, dnsType.SOA}
          THEN /\ Staying(t, [f EXCEPT !.i = @ + 1, !.err = "AuthorityIsNotNS"])
               /\ store' = store
          ELSE IF Len(response.Extra) > 0
          THEN /\ UseServers(t, f, ARecords(response.Extra, response.Ns[f.i].Target))
               /\ store' = store
          ELSE LET nsQMsg == newQuestionMsg(response.Ns[f.i].Target)
                   g == Get(store, now, nsQMsg)
               IN /\ store' = g.store
                  /\ IF g.hit
                     THEN UseServers(t, f, ARecords(g.msg.Answer, ""))
                     ELSE Calling(t, [f EXCEPT !.pc = "nsresolved"],
                                  Frame("tryHandleFromRoots", "loop", nsQMsg, f.ctx))
    /\ UNCHANGED <<recursive, ctxs, chans, handleRet, exchanges, fbCalls, crashed>>
    /\ UNCHANGED notLookupVars

\* the return of tryHandleFromRoots for the name of the NS;
\* nextNsAnswer.Answer dereferences a nil nextNsAnswer
UseNextNSResolved(t) ==
    /\ At(t, "useNextNS", "nsresolved")
    /\ LET f == Top(t)
           r == threads[t].ret
       IN IF r.err # "none"
          THEN Returning(t, NilMsg, r.err) /\ UNCHANGED crashed
          ELSE IF r.msg.nil
          THEN crashed' = TRUE /\ UNCHANGED threads
          ELSE /\ UseServers(t, [f EXCEPT !.err = "none"], ARecords(r.msg.Answer, ""))
               /\ UNCHANGED crashed
    /\ UNCHANGED <<recursive, ctxs, chans, handleRet, exchanges, fbCalls, store>>
    /\ UNCHANGED notLookupVars

\* the return of handleRecursive for one address of the NS
UseNextNSGot(t) ==
    /\ At(t, "useNextNS", "srvgot")
    /\ LET f == Top(t)
           r == threads[t].ret
       IN IF r.err # "none" \/ r.msg.nil \/ Len(r.msg.Answer) < 1
          THEN IF f.j < Len(f.nextSrv)
               THEN IF CtxErr(f.ctx) # "none"
                    THEN Returning(t, NilMsg, CtxErr(f.ctx))
                    ELSE Calling(t, [f EXCEPT !.j = @ + 1, !.err = r.err],
                                 [Frame("handleRecursive", "call", f.msg, f.ctx) EXCEPT
                                     !.srv = f.nextSrv[f.j + 1].A])
               ELSE Staying(t, [f EXCEPT !.pc = "ns", !.i = @ + 1, !.err = r.err,
                                         !.nextSrv = <<>>, !.j = 0])
          ELSE Returning(t, r.msg, "none")
    /\ UNCHANGED <<recursive, ctxs, chans, handleRet, exchanges, fbCalls, crashed, store>>
    /\ UNCHANGED notLookupVars

\* ---- the deadlines: DefaultTimeout after each context was made ----
CtxExpire ==
    /\ ~crashed
    /\ ctxs.ctx = "live"
    /\ ctxs' = [ctxs EXCEPT !.ctx = "done"]
    /\ UNCHANGED <<recursive, threads, chans, handleRet, exchanges, fbCalls, crashed, store>>
    /\ UNCHANGED notLookupVars

\* the context of fallbackLookup is made after ctx, with the same timeout
FallbackCtxExpire ==
    /\ ~crashed
    /\ ctxs.fb = "live"
    /\ ctxs.ctx = "done"
    /\ ctxs' = [ctxs EXCEPT !.fb = "done"]
    /\ UNCHANGED <<recursive, threads, chans, handleRet, exchanges, fbCalls, crashed, store>>
    /\ UNCHANGED notLookupVars

Threads == {"Handle", "go"}

NextLookup ==
    \/ GoStart
    \/ GoSend
    \/ HandleRecvMsg
    \/ HandleRecvErr
    \/ HandleCtxDone
    \/ HandleFallbackDone
    \/ \E t \in Threads : FallbackCall(t)
    \/ \E t \in Threads : FallbackReturn(t)
    \/ \E t \in Threads : TryHandleFromRoots(t)
    \/ \E t \in Threads : HandleRecursive(t)
    \/ \E t \in Threads : HandleRecursiveTimeout(t)
    \/ \E t \in Threads : HandleRecursiveAsserted(t)
    \/ \E t \in Threads : HandleRecursiveTail(t)
    \/ \E t \in Threads : AssertAnswerForQuestion(t)
    \/ \E t \in Threads : AssertCname(t)
    \/ \E t \in Threads : UseNextNS(t)
    \/ \E t \in Threads : UseNextNSResolved(t)
    \/ \E t \in Threads : UseNextNSGot(t)
    \/ CtxExpire
    \/ FallbackCtxExpire

(***************************************************************************)
(* The wire form of a message: dns.Msg.Pack and dns.Msg.Unpack, for        *)
(* messages of one question and n address records, all names of one label  *)
(***************************************************************************)
U16(n) == <<(n \div 256) % 256, n % 256>>
\* binary.BigEndian.Uint16
Uint16(p) == p[1] * 256 + p[2]

WireMsg(id, response, n) ==
    LET
        WireA == <<97>>
    IN
    LET
        WireRR(k) ==
            [Name |-> WireA, Rrtype |-> dnsType.A, Class |-> 1, Ttl |-> k, Rdata |-> <<10, 0, 0, k>>]
    IN
    LET
        WireQuestion == [Name |-> WireA, Qtype |-> dnsType.A, Qclass |-> 1]
    IN
    [Id |-> id, Response |-> response, Question |-> <<WireQuestion>>,
     Answer |-> [k \in 1..n |-> WireRR(k)]]

NoWireMsg == [Id |-> 0, Response |-> FALSE, Question |-> <<>>, Answer |-> <<>>]

PackName(name) == <<Len(name)>> \o name \o <<0>>

RECURSIVE PackQuestions(_)
PackQuestions(items) ==
    LET
        PackQuestion(q) == PackName(q.Name) \o U16(q.Qtype) \o U16(q.Qclass)
    IN
    IF items = <<>> THEN <<>> ELSE PackQuestion(Head(items)) \o PackQuestions(Tail(items))

RECURSIVE PackRRs(_)
PackRRs(items) ==
    LET
        PackRR(rr) ==
            LET
                U32(n) == U16(n \div 65536) \o U16(n % 65536)
            IN
            PackName(rr.Name) \o U16(rr.Rrtype) \o U16(rr.Class) \o U32(rr.Ttl)
                \o U16(Len(rr.Rdata)) \o rr.Rdata
    IN
    IF items = <<>> THEN <<>> ELSE PackRR(Head(items)) \o PackRRs(Tail(items))

\* msg.Pack(): the header of 12 bytes, the questions, the answers
Pack(m) ==
    U16(m.Id) \o <<IF m.Response THEN 128 ELSE 0, 0>>
        \o U16(Len(m.Question)) \o U16(Len(m.Answer)) \o U16(0) \o U16(0)
        \o PackQuestions(m.Question) \o PackRRs(m.Answer)

Parsed(ok, item, next) == [ok |-> ok, item |-> item, next |-> next]

\* a name of one label at offset off
UnpackName(p, off) ==
    IF off <= Len(p) /\ off + p[off] + 1 <= Len(p) /\ p[off + p[off] + 1] = 0
    THEN Parsed(TRUE, SubSeq(p, off + 1, off + p[off]), off + p[off] + 2)
    ELSE Parsed(FALSE, <<>>, off)

\* n items in a row from offset off, each unpacked by its own operator
Chained(h, t) == Parsed(h.ok /\ t.ok, IF h.ok /\ t.ok THEN <<h.item>> \o t.item ELSE <<>>, t.next)

RECURSIVE UnpackQuestions(_, _, _)
UnpackQuestions(p, off, n) ==
    LET
        UnpackQuestion(p0, off0) ==
            LET n0 == UnpackName(p0, off0)
            IN IF n0.ok /\ n0.next + 3 <= Len(p0)
               THEN Parsed(TRUE,
                           [Name |-> n0.item, Qtype |-> Uint16(SubSeq(p0, n0.next, n0.next + 1)),
                            Qclass |-> Uint16(SubSeq(p0, n0.next + 2, n0.next + 3))],
                           n0.next + 4)
               ELSE Parsed(FALSE, <<>>, off0)
    IN
    IF n = 0
    THEN Parsed(TRUE, <<>>, off)
    ELSE IF ~UnpackQuestion(p, off).ok
    THEN Parsed(FALSE, <<>>, off)
    ELSE Chained(UnpackQuestion(p, off),
                 UnpackQuestions(p, UnpackQuestion(p, off).next, n - 1))

RECURSIVE UnpackRRs(_, _, _)
UnpackRRs(p, off, n) ==
    LET
        UnpackRR(p1, off1) ==
            LET n1 == UnpackName(p1, off1)
                x == n1.next
            IN IF n1.ok /\ x + 9 <= Len(p1) /\ x + 9 + Uint16(SubSeq(p1, x + 8, x + 9)) <= Len(p1)
               THEN Parsed(TRUE,
                           [Name |-> n1.item, Rrtype |-> Uint16(SubSeq(p1, x, x + 1)),
                            Class |-> Uint16(SubSeq(p1, x + 2, x + 3)),
                            Ttl |-> Uint16(SubSeq(p1, x + 4, x + 5)) * 65536
                                    + Uint16(SubSeq(p1, x + 6, x + 7)),
                            Rdata |-> SubSeq(p1, x + 10, x + 9 + Uint16(SubSeq(p1, x + 8, x + 9)))],
                           x + 10 + Uint16(SubSeq(p1, x + 8, x + 9)))
               ELSE Parsed(FALSE, <<>>, off1)
    IN
    IF n = 0
    THEN Parsed(TRUE, <<>>, off)
    ELSE IF ~UnpackRR(p, off).ok
    THEN Parsed(FALSE, <<>>, off)
    ELSE Chained(UnpackRR(p, off), UnpackRRs(p, UnpackRR(p, off).next, n - 1))

\* m.Unpack(p): the message, or an error
Unpack(p) ==
    IF Len(p) < 12
    THEN [ok |-> FALSE, msg |-> NoWireMsg]
    ELSE LET qs == UnpackQuestions(p, 13, Uint16(SubSeq(p, 5, 6)))
             as == UnpackRRs(p, qs.next, Uint16(SubSeq(p, 7, 8)))
         IN IF qs.ok /\ as.ok
            THEN [ok |-> TRUE,
                  msg |-> [Id |-> Uint16(SubSeq(p, 1, 2)), Response |-> p[3] >= 128,
                           Question |-> qs.item, Answer |-> as.item]]
            ELSE [ok |-> FALSE, msg |-> NoWireMsg]

(***************************************************************************)
(* internal/ssh/dns_client.go, internal/ssh/connect.go: one call of        *)
(* Client.ExchangeWithContext, with the goroutines it starts and the       *)
(* stream it opens; Connection and its codec                               *)
(***************************************************************************)
\* Connection.Write: the length prefix and the payload, in one write
Write(buff) ==
    LET
        \* binary.BigEndian.PutUint16(nbuff, uint16(l))
        WritePrefix(l) == U16(l)
    IN
               WritePrefix(Len(buff)) \o buff

NoReader ==
    [pc |-> "none", p |-> <<>>, l |-> 0, buf |-> <<>>, msg |-> NoWireMsg, err |-> "none",
     short |-> FALSE, reads |-> 0]

XCall(pc, msg, err) == [pc |-> pc, msg |-> msg, err |-> err]

InitExchange ==
    /\ xcall = XCall("start", NoWireMsg, "none")
    /\ xctx = "live"
    /\ dialer = "none"
    /\ stream = [state |-> "none", eof |-> FALSE, up |-> <<>>, down |-> <<>>,
                 sent |-> NoWireMsg]
    /\ writer = "none"
    /\ reader = NoReader

\* errors.DNSDialErr{Cause: err}, errors.DNSWriteErr{Cause: err}
XDialErr(cause) == "error dialing DNS: " \o cause
\* conn.Close(), deferred by ExchangeWithContext once it holds the conn
Closed(st) == [st EXCEPT !.state = "closed"]

\* ---- DialTCPWithContext (connect.go:35-62) ----
\* if ctx.Err() != nil { return nil, ctx.Err() }; go func() { cli.Dial(...) }()
XStart ==
    /\ xcall.pc = "start"
    /\ IF xctx = "done"
       THEN /\ xcall' = XCall("done", NoWireMsg, XDialErr("context deadline exceeded"))
            /\ UNCHANGED dialer
       ELSE /\ xcall' = [xcall EXCEPT !.pc = "dial"]
            /\ dialer' = "dialing"
    /\ UNCHANGED <<xctx, stream, writer, reader>>
    /\ UNCHANGED notExchVars

\* the goroutine: conn, err := cli.Dial("tcp", addr); connChannel <- conn
DialConn ==
    /\ dialer = "dialing"
    /\ dialer' = "conn"
    /\ stream' = [stream EXCEPT !.state = "open"]
    /\ UNCHANGED <<xcall, xctx, writer, reader>>
    /\ UNCHANGED notExchVars

\* the goroutine: errResultChannel <- err
DialFail ==
    /\ dialer = "dialing"
    /\ dialer' = "err"
    /\ UNCHANGED <<xcall, xctx, stream, writer, reader>>
    /\ UNCHANGED notExchVars

\* the select of DialTCPWithContext and what ExchangeWithContext does with its
\* result: DNSDialErr, or defer conn.Close() and WriteMsgWithContext, which
\* starts the goroutine of WriteMsg
XDialSelect ==
    /\ xcall.pc = "dial"
    /\ \/ /\ xctx = "done"
          /\ xcall' = XCall("done", NoWireMsg, XDialErr(ConnectionTimeout))
          /\ UNCHANGED <<dialer, writer>>
       \/ /\ dialer = "err"
          /\ xcall' = XCall("done", NoWireMsg, XDialErr("dial"))
          /\ dialer' = "done"
          /\ UNCHANGED writer
       \/ /\ dialer = "conn"
          /\ xcall' = [xcall EXCEPT !.pc = "write"]
          /\ dialer' = "done"
          /\ writer' = "writing"
    /\ UNCHANGED <<xctx, stream, reader>>
    /\ UNCHANGED notExchVars

\* ---- Connection.WriteMsgWithContext, WriteMsg, Write ----
\* the goroutine: errChan <- pc.WriteMsg(msg), the write went through
WriterWrite ==
    LET
        \* the query of the exchange
        XRequest == WireMsg(7, FALSE, 0)
    IN
    /\ writer = "writing"
    /\ stream.state = "open"
    /\ ~stream.eof
    /\ stream' = [stream EXCEPT !.up = Write(Pack(XRequest))]
    /\ writer' = "ok"
    /\ UNCHANGED <<xcall, xctx, dialer, reader>>
    /\ UNCHANGED notExchVars

\* the goroutine: the write fails on a stream that was closed at either end
WriterFail ==
    /\ writer = "writing"
    /\ stream.state = "closed" \/ stream.eof
    /\ writer' = "err"
    /\ UNCHANGED <<xcall, xctx, dialer, stream, reader>>
    /\ UNCHANGED notExchVars

\* the select of WriteMsgWithContext and what ExchangeWithContext does with
\* its result: DNSWriteErr, or ReadMsgWithContext, which starts the goroutine
\* of ReadMsg; a return runs the deferred conn.Close()
XWriteSelect ==
    LET
        XWriteErr(cause) == "error writing DNS request: " \o cause
    IN
    /\ xcall.pc = "write"
    /\ \/ /\ xctx = "done"
          /\ xcall' = XCall("done", NoWireMsg, XWriteErr(ConnectionTimeout))
          /\ stream' = Closed(stream)
          /\ UNCHANGED <<writer, reader>>
       \/ /\ writer = "err"
          /\ xcall' = XCall("done", NoWireMsg, XWriteErr("write"))
          /\ stream' = Closed(stream)
          /\ writer' = "done"
          /\ UNCHANGED reader
       \/ /\ writer = "ok"
          /\ xcall' = [xcall EXCEPT !.pc = "read"]
          /\ writer' = "done"
          /\ reader' = [NoReader EXCEPT !.pc = "len"]
          /\ UNCHANGED stream
    /\ UNCHANGED <<xctx, dialer>>
    /\ UNCHANGED notExchVars

\* ---- the upstream server ----
\* it has the query and writes a response, framed as Connection.Write frames
PeerReply(m) ==
    /\ stream.state = "open"
    /\ ~stream.eof
    /\ stream.up # <<>>
    /\ stream.sent = NoWireMsg
    /\ stream' = [stream EXCEPT !.down = Write(Pack(m)), !.sent = m]
    /\ UNCHANGED <<xcall, xctx, dialer, writer, reader>>
    /\ UNCHANGED notExchVars

\* it closes the stream without a response
PeerHangup ==
    /\ stream.state = "open"
    /\ ~stream.eof
    /\ stream.sent = NoWireMsg
    /\ stream' = [stream EXCEPT !.eof = TRUE]
    /\ UNCHANGED <<xcall, xctx, dialer, writer, reader>>
    /\ UNCHANGED notExchVars

\* ---- Connection.ReadMsgWithContext, ReadMsg, ReadMsgHdr, tcpMsgLen, tcpRead ----
\* t.Read(buf) delivers n bytes: at least one, no more than the buffer takes
\* and no more than the stream holds
Deliverable(room) ==
    {n \in 1..room : n <= Len(stream.down)}

Drained(n) == [stream EXCEPT !.down = SubSeq(@, n + 1, Len(@))]

\* the result of ReadMsg with the payload p: msgChan <- msg or errChan <- err
ReadDone(r, p) ==
    IF Unpack(p).ok
    THEN [r EXCEPT !.pc = "sent", !.buf = <<>>, !.msg = Unpack(p).msg]
    ELSE [r EXCEPT !.pc = "failed", !.buf = <<>>, !.err = "unpack"]

\* ReadMsgHdr with the prefix p read: p := make([]byte, l); tcpRead(pc, p),
\* which reads nothing into an empty buffer
GotLen(r, p) ==
    IF Uint16(p) = 0
    THEN ReadDone([r EXCEPT !.p = p], <<>>)
    ELSE [r EXCEPT !.pc = "body", !.p = p, !.l = Uint16(p)]

\* (mutant) a tcpMsgLen that takes the one byte for the whole prefix
ShortRead_Ignored(n) == FALSE

\* if n == 1: the first read gave one byte of the prefix
ShortRead(n) == n = 1

\* tcpMsgLen: p := []byte{0, 0}; n, err := t.Read(p)
ReadLen ==
    /\ reader.pc = "len"
    /\ stream.state = "open"
    /\ \E n \in Deliverable(2) :
          LET p == SubSeq(stream.down, 1, n) \o [k \in 1..(2 - n) |-> 0]
          IN /\ reader' = IF ShortRead(n)
                          THEN [reader EXCEPT !.pc = "len2", !.p = p, !.short = TRUE]
                          ELSE GotLen([reader EXCEPT !.short = (n = 1)], p)
             /\ stream' = Drained(n)
    /\ UNCHANGED <<xcall, xctx, dialer, writer>>
    /\ UNCHANGED notExchVars

\* tcpMsgLen: t.Read(p[1:]); l := binary.BigEndian.Uint16(p)
ReadLen2 ==
    /\ reader.pc = "len2"
    /\ stream.state = "open"
    /\ \E n \in Deliverable(1) :
          LET p == <<reader.p[1], stream.down[1]>>
          IN /\ reader' = GotLen(reader, p)
             /\ stream' = Drained(n)
    /\ UNCHANGED <<xcall, xctx, dialer, writer>>
    /\ UNCHANGED notExchVars

\* tcpRead: one t.Read(p[n:]); with the buffer full, m.Unpack(p)
ReadBody ==
    LET
        \* for n < len(p): tcpRead goes on until the buffer is full
        ReadFull(got, l) == got >= l
    IN
    /\ reader.pc = "body"
    /\ stream.state = "open"
    /\ \E n \in Deliverable(reader.l - Len(reader.buf)) :
          LET buf == reader.buf \o SubSeq(stream.down, 1, n)
              r == [reader EXCEPT !.buf = buf,
                                  !.reads = IF @ < 2 THEN @ + 1 ELSE @]
          IN /\ reader' = IF ReadFull(Len(buf), reader.l)
                          THEN ReadDone(r, buf \o [k \in 1..(reader.l - Len(buf)) |-> 0])
                          ELSE r
             /\ stream' = Drained(n)
    /\ UNCHANGED <<xcall, xctx, dialer, writer>>
    /\ UNCHANGED notExchVars

\* a Read on a stream that was closed at either end returns an error
ReadFail ==
    /\ reader.pc \in {"len", "len2", "body"}
    /\ stream.state = "closed" \/ (stream.eof /\ stream.down = <<>>)
    /\ reader' = [reader EXCEPT !.pc = "failed",
                                !.err = IF stream.state = "closed" THEN "closed" ELSE "EOF"]
    /\ UNCHANGED <<xcall, xctx, dialer, stream, writer>>
    /\ UNCHANGED notExchVars

\* the select of ReadMsgWithContext and the end of ExchangeWithContext:
\* DNSReadErr or the response; the return runs the deferred conn.Close()
XReadSelect ==
    /\ xcall.pc = "read"
    /\ \/ /\ xctx = "done"
          /\ xcall' = XCall("done", NoWireMsg, DNSReadErr(ConnectionTimeout))
       \/ /\ reader.pc = "failed"
          /\ xcall' = XCall("done", NoWireMsg, DNSReadErr(reader.err))
       \/ /\ reader.pc = "sent"
          /\ xcall' = XCall("done", reader.msg, "none")
    /\ stream' = Closed(stream)
    /\ UNCHANGED <<xctx, dialer, writer, reader>>
    /\ UNCHANGED notExchVars

\* the deadline of ctx passes
XCtxExpire ==
    /\ xctx = "live"
    /\ xcall.pc # "done"
    /\ xctx' = "done"
    /\ UNCHANGED <<xcall, dialer, stream, writer, reader>>
    /\ UNCHANGED notExchVars

NextExchange ==
    LET
        \* the responses the upstream server can write
        WireResponses ==
            LET
                \* the numbers of records in the responses of the upstream server: packed
                \* lengths below and above 255 bytes
                AnswerCounts == {0, 1, MaxAnswers - 1, MaxAnswers}
            IN
                         {WireMsg(id, TRUE, n) : id \in {7, 258}, n \in AnswerCounts}
    IN
    \/ XStart
    \/ DialConn
    \/ DialFail
    \/ XDialSelect
    \/ WriterWrite
    \/ WriterFail
    \/ XWriteSelect
    \/ \E m \in WireResponses : PeerReply(m)
    \/ PeerHangup
    \/ ReadLen
    \/ ReadLen2
    \/ ReadBody
    \/ ReadFail
    \/ XReadSelect
    \/ XCtxExpire

(***************************************************************************)
(* internal/ssh/connect.go: safeHostKeyCallback, MultiHostKeys             *)
(***************************************************************************)
HostKeys == {"k1", "k2"}

RECURSIVE SeqsUpTo(_, _)
SeqsUpTo(S, n) ==
    IF n = 0
    THEN {<<>>}
    ELSE SeqsUpTo(S, n - 1)
            \cup {Append(q, x) : q \in {r \in SeqsUpTo(S, n - 1) : Len(r) = n - 1}, x \in S}

\* (mutant) a callback that does not look at the marker
IsRevoked_Never(marker) == FALSE

\* if marker == "revoked"
IsRevoked(marker) == marker = "revoked"

Callback(kind, pkps, err) == [kind |-> kind, pkps |-> pkps, err |-> err]

\* for _, host := range hosts: the keys collected so far, or the error of a
\* revoked entry
RECURSIVE OverHosts(_, _, _)
OverHosts(hosts, line, pkps) ==
    LET
        \* host == cfg.RemoteAddr() || (host+":22") == cfg.RemoteAddr()
        HostMatches(host) ==
            LET
                \* strings.ReplaceAll(strings.ReplaceAll(host, "[", ""), "]", "")
                StripBrackets(host0) == SelectSeq(host0, LAMBDA c : c \notin {"[", "]"})
            IN
            LET
                \* cfg.RemoteAddr(), as the characters of "h:22"
                RemoteAddr == <<"h", ":", "2", "2">>
            IN
            \/ StripBrackets(host) = RemoteAddr
            \/ StripBrackets(host) \o <<":", "2", "2">> = RemoteAddr
    IN
    IF hosts = <<>>
    THEN [err |-> "none", pkps |-> pkps]
    ELSE IF HostMatches(Head(hosts))
    THEN IF IsRevoked(line.marker)
         THEN [err |-> "revoked", pkps |-> pkps]
         ELSE OverHosts(Tail(hosts), line, Append(pkps, line.pk))
    ELSE OverHosts(Tail(hosts), line, pkps)

\* the for loop over ssh.ParseKnownHosts(hk), up to its return or bailOut
RECURSIVE OverLines(_, _)
OverLines(lines, pkps) ==
    IF lines = <<>>
    THEN IF Len(pkps) > 0
         THEN Callback("MultiHostKeys", pkps, "none")
         ELSE Callback("bailOut", <<>>, "No valid key found for host")
    ELSE IF Head(lines).bad
    THEN Callback("bailOut", <<>>, "parse error")
    ELSE IF OverHosts(Head(lines).hosts, Head(lines), pkps).err # "none"
    THEN Callback("bailOut", <<>>, OverHosts(Head(lines).hosts, Head(lines), pkps).err)
    ELSE OverLines(Tail(lines), OverHosts(Head(lines).hosts, Head(lines), pkps).pkps)

\* safeHostKeyCallback(cfg): the callback it returns
safeHostKeyCallback(cfg) ==
    IF cfg.DoNotVerifyHost
    THEN Callback("InsecureIgnoreHostKey", <<>>, "none")
    ELSE IF ~cfg.readable
    THEN Callback("bailOut", <<>>, "open: no such file")
    ELSE OverLines(cfg.lines, <<>>)

\* MultiHostKeys: the error of the last callback unless one returns nil;
\* ssh.FixedHostKey(pk) accepts the key equal to pk
RECURSIVE MultiHostKeys(_, _, _)
MultiHostKeys(pkps, p, err) ==
    IF pkps = <<>>
    THEN err
    ELSE IF Head(pkps) = p
    THEN "none"
    ELSE MultiHostKeys(Tail(pkps), p, "ssh: host key mismatch")

NoCallback == Callback("none", <<>>, "none")

\* the configuration is read: the flag -x, the known-hosts file
InitHostKey ==
    LET
        \* what ssh.ParseKnownHosts returns for a line: an entry with its marker, hosts
        \* and key, or an error
        KnownHostsLines ==
            LET
                \* the host fields of the lines of the file
                HostFields ==
                    {<<"h">>, <<"[", "h", "]", ":", "2", "2">>, <<"h", ":", "2", "2">>, <<"o">>}
            IN
            [bad : {FALSE}, marker : {"", "revoked", "cert-authority"},
             hosts : {<<f>> : f \in HostFields} \cup {<<<<"o">>, <<"h">>>>},
             pk : HostKeys]
            \cup {[bad |-> TRUE, marker |-> "", hosts |-> <<>>, pk |-> "k1"]}
    IN
    hostkey \in [pc : {"config"},
                 cfg : [DoNotVerifyHost : BOOLEAN, readable : BOOLEAN,
                        lines : SeqsUpTo(KnownHostsLines, MaxLines)],
                 cb : {NoCallback}, presented : {"none"}, result : {"none"}]

\* createNewClient: HostKeyCallback: safeHostKeyCallback(cfg)
NewHostKeyCallback ==
    /\ hostkey.pc = "config"
    /\ hostkey' = [hostkey EXCEPT !.pc = "dial", !.cb = safeHostKeyCallback(hostkey.cfg)]
    /\ UNCHANGED notHostKeyVars

\* the handshake of ssh.Dial calls the callback with the key of the server
Handshake(p) ==
    LET
        \* the callback cb called with the key p the server presents
        CallbackResult(cb, p2) ==
            CASE cb.kind = "InsecureIgnoreHostKey" -> "none"
              [] cb.kind = "MultiHostKeys" -> MultiHostKeys(cb.pkps, p2, "none")
              [] OTHER -> cb.err
    IN
    /\ hostkey.pc = "dial"
    /\ hostkey' = [hostkey EXCEPT !.pc = "checked", !.presented = p,
                                  !.result = CallbackResult(hostkey.cb, p)]
    /\ UNCHANGED notHostKeyVars

NextHostKey ==
    \/ NewHostKeyCallback
    \/ \E p \in HostKeys : Handshake(p)

(***************************************************************************)
(* Specifications                                                          *)
(***************************************************************************)
InitComponents ==
    InitPool /\ InitCache /\ InitProxy /\ InitLookup /\ InitExchange /\ ttlEntry = NoEntry

Init ==
    LET
        \* no tunnel is being set up
        IdleHostKey ==
            [pc |-> "config",
             cfg |-> [DoNotVerifyHost |-> FALSE, readable |-> FALSE, lines |-> <<>>],
             cb |-> NoCallback, presented |-> "none", result |-> "none"]
    IN
        InitComponents /\ hostkey = IdleHostKey

\* The pool, the cache and the proxy handler never read the lookup mode; their
\* specifications start from the forwarding configuration only.
InitForwarding == Init /\ ~recursive

PoolSpec == InitForwarding /\ [][NextPool]_vars

\* The Go scheduler runs every runnable goroutine: the tracker, each reconnect
\* goroutine at each of its positions, each sender and each lookup.
PoolFairness ==
    /\ WF_vars(TrackerStep)
    /\ WF_vars(ReconnectReset)
    /\ WF_vars(ReconnectSetFlag)
    /\ WF_vars(ReconnectAttempt)
    /\ WF_vars(ReconnectSleep)
    /\ WF_vars(ReconnectClearFlag)
    /\ WF_vars(ReconnectZero)
    /\ \A s \in Signals : WF_vars(SendSignal(s))
    /\ \A i \in ClientIds : WF_vars(\E o \in ExchangeOutcomes : ExchangeWithContext(i, o))

LivePoolSpec == PoolSpec /\ PoolFairness

WatchedPoolSpec == InitForwarding /\ [][NextWatchedPool]_vars

\* The Go scheduler runs the tracker and each reconnect goroutine; the senders
\* blocked on a full channel are woken in the order they arrived, so a sender
\* that finds room again and again does send.
SignalFairness ==
    /\ WF_vars(TrackerStep)
    /\ WF_vars(ReconnectStep)
    /\ \A s \in Signals : SF_vars(SendSignal(s))

LiveSignalSpec == InitForwarding /\ [][NextSignals]_vars /\ SignalFairness

CacheSpec == InitForwarding /\ [][NextCache]_vars

TtlSpec == InitForwarding /\ [][NextTtl]_vars

ProxySpec == InitForwarding /\ [][NextProxy]_vars

ServerSpec == InitForwarding /\ [][NextServer]_vars

LookupSpec == Init /\ [][NextLookup]_vars

\* The Go scheduler runs Handle and its goroutine whenever they can take a
\* step, and the timers of the two contexts fire.
LiveLookupSpec == LookupSpec /\ WF_vars(NextLookup)

ExchangeSpec == InitForwarding /\ [][NextExchange]_vars

\* a configuration is drawn instead of the idle one
InitHostKeys == InitComponents /\ ~recursive /\ InitHostKey

HostKeySpec == InitHostKeys /\ [][NextHostKey]_vars

(***************************************************************************)
(* Claims about the client pool                                            *)
(***************************************************************************)
\* C4: every exchange that fails at a network step (dial, write or read) emits
\* an error signal towards the pool's errCounter.
C4_EveryFailedStepSignals ==
    [][(/\ lastCall' # lastCall
        /\ lastCall'.op = "Exchange"
        /\ lastCall'.ret \in {"DNSDialErr", "DNSWriteErr", "DNSReadErr"})
       => sending'[DNSDialErr] = sending[DNSDialErr] + 1]_vars

\* C8: Acquire called while reconnecting is true returns errReconnecting at
\* once: no client is handed out or created.
C8_AcquireFailsFastWhileReconnecting ==
    [][(reconnecting /\ lastCall' # lastCall /\ lastCall'.op = "Acquire")
       => /\ lastCall'.ret = errReconnecting
          /\ ~lastCall'.cli
          /\ clients' = clients]_vars

C8_Witness ==
    /\ reconnecting
    /\ lastCall.op = "Acquire"
    /\ lastCall.ret = errReconnecting
    /\ HasIdle

\* C9: a reconnecting pool retries until it succeeds: if from some moment on
\* the tunnel stays dial-able, a pool that is reconnecting comes back to a
\* state with reconnecting = false and errCounter = 0.
C9_ReconnectingLeadsToHealthy ==
    (<>[]dialable) => (reconnecting ~> (~reconnecting /\ errCounter = 0))

\* C10: a reset signal consumed while the pool is not reconnecting is handled
\* by storing 0 into errCounter, whatever the count was.
C10_ResetZeroesCounter ==
    [][/\ (tracker.pc = "chk" /\ tracker.err = errResetErrCount /\ ~reconnecting
             /\ tracker' # tracker) => tracker'.pc = "store0"
       /\ (tracker.pc = "store0" /\ tracker' # tracker) => errCounter' = 0]_vars

C10_Witness ==
    /\ resetCleared
    /\ errCounter = 0
    /\ ~reconnecting
    /\ tracker.pc = "recv"

(***************************************************************************)
(* Claims about the cache                                                  *)
(***************************************************************************)
\* C5: Cache.Get on a key whose entry has expired (now later than Ts + 3 * Ttl
\* seconds) returns a miss (no message, hit = false) and deletes the entry.
C5_ExpiredGetIsMissAndDeletes ==
    [][\A ql \in CacheQLists :
          (/\ keying(Request(ql)) \in DOMAIN store
           /\ Expired(store[keying(Request(ql))], now)
           /\ lastGet' # lastGet
           /\ lastGet'.key = keying(Request(ql)))
          => /\ ~lastGet'.hit
             /\ lastGet'.msg = NilMsg
             /\ keying(Request(ql)) \notin DOMAIN store']_vars

(***************************************************************************)
(* Claims about the proxy                                                  *)
(***************************************************************************)
\* C2: concurrent requests that missed the cache and carry the same question
\* key belong to one call, for which Handle is invoked exactly once, and every
\* request of a call gets the message and the error of that call.
C2_SameKeySharesOneHandle ==
    LET
        \* the request has entered Do and the call it belongs to is in progress
        InFlightCall(i) ==
            /\ requests[i].pc \in {"submit", "leading", "waiting"}
            /\ calls[requests[i].call].state # "done"
    IN
    /\ \A i, j \in ReqIds :
          (/\ InFlightCall(i)
           /\ InFlightCall(j)
           /\ keying(Request(requests[i].ql)) = keying(Request(requests[j].ql)))
          => requests[i].call = requests[j].call
    /\ \A c \in ReqIds :
          /\ calls[c].handled <= 1
          /\ calls[c].state \in {"running", "returned", "done"} => calls[c].handled = 1
    /\ \A i \in ReqIds :
          (requests[i].pc = "done" /\ requests[i].call # 0)
          => /\ requests[i].msg = calls[requests[i].call].msg
             /\ requests[i].err = calls[requests[i].call].err

C2_Witness ==
    \E i, j \in ReqIds :
        /\ i # j
        /\ requests[i].ql = requests[j].ql
        /\ requests[i].pc = "done"
        /\ requests[j].pc = "done"
        /\ requests[i].call = i
        /\ requests[j].call = i
        /\ calls[i].handled = 1
        /\ ~requests[j].msg.nil

C1_HandleNeverNilWithoutError ==
    handleRet.done => (handleRet.msg.nil <=> handleRet.err # "none")

\* C6: in iterative mode the message Handle passes to tryHandleFromRoots, and
\* that walk passes to handleRecursive for each root, is the request message.
C6_RootWalkCarriesRequest ==
    recursive =>
        \A k \in {2, 3} :
            k <= Len(threads["go"].stack) => threads["go"].stack[k].msg = HandleMsg

\* C7 as stated: in forwarding mode Handle performs a single exchange, with the
\* fallback resolver; no root server and no delegated server is contacted.
C7_ForwardingContactsFallbackOnly ==
    ~recursive =>
        /\ Len(exchanges) <= 1
        /\ \A k \in 1..Len(exchanges) : exchanges[k].srv = fallbackTargetNS

\* C7 amended: in forwarding mode fallbackLookup calls handleRecursive at most
\* once; the first stream opened is to the fallback resolver and carries the
\* request; when its response holds a record of the question's type, this is
\* the only exchange and a Handle that returns a message returns this response.
C7_ForwardingSingleHandleRecursive ==
    ~recursive =>
        /\ fbCalls <= 1
        /\ exchanges # <<>> =>
              /\ exchanges[1].srv = fallbackTargetNS
              /\ exchanges[1].msg = HandleMsg
        /\ (/\ exchanges # <<>>
            /\ HasType(exchanges[1].rsp.Answer, HandleMsg.Question[1].Qtype)) =>
              /\ Len(exchanges) = 1
              /\ (handleRet.done /\ ~handleRet.msg.nil) =>
                    handleRet.msg = exchanges[1].rsp

C7_Witness ==
    /\ ~recursive
    /\ handleRet.done
    /\ handleRet.err = "none"
    /\ fbCalls = 1
    /\ Len(exchanges) = 1
    /\ ~handleRet.msg.nil
    /\ handleRet.msg = exchanges[1].rsp

C12_FallbackPassesThrough ==
    LET
        \* the exchanges of this Handle with the fallback resolver
        FallbackExchanges == SelectSeq(exchanges, LAMBDA x : x.srv = fallbackTargetNS)
    IN
    (recursive /\ handleRet.done /\ fbCalls > 0) =>
        /\ fbCalls = 1
        /\ Len(FallbackExchanges) <= 1
        /\ (FallbackExchanges # <<>> /\ ~FallbackExchanges[1].rsp.nil) =>
              /\ handleRet.err = "none"
              /\ handleRet.msg = FallbackExchanges[1].rsp
        /\ (FallbackExchanges # <<>> /\ FallbackExchanges[1].rsp.nil) =>
              /\ handleRet.msg.nil
              /\ \E e \in StreamErrors : handleRet.err = DomainNotFound(e)

\* C13: when every server this Handle has sent the query to took it and never
\* answered, Handle fails with an error whose chain of causes ends in
\* ConnectionTimeout, in forwarding mode and in iterative mode.
C13_SilentUpstreamGivesTimeout ==
    LET
        \* the errors whose chain of causes ends in ConnectionTimeout
        TimeoutRooted ==
            {DNSReadErr(ConnectionTimeout), DomainNotFound(DNSReadErr(ConnectionTimeout))}
    IN
    (/\ handleRet.done
     /\ exchanges # <<>>
     /\ \A k \in 1..Len(exchanges) : exchanges[k].silent) =>
        /\ handleRet.msg.nil
        /\ handleRet.err \in TimeoutRooted

(***************************************************************************)
(* Claims about the proxy, continued                                       *)
(***************************************************************************)
\* C14: a request whose lookup failed with DomainNotFound is answered all the
\* same: the handler writes a reply with the id of the request and with empty
\* answer, authority and additional sections.
C14_FailedLookupGetsEmptyReply ==
    \A i \in ReqIds :
        (requests[i].pc = "done" /\ requests[i].err # "none") =>
            /\ ~requests[i].rsp.nil
            /\ requests[i].rsp.Id = requests[i].id
            /\ requests[i].rsp.Answer = <<>>
            /\ requests[i].rsp.Ns = <<>>
            /\ requests[i].rsp.Extra = <<>>

\* C15: every reply written has the id of the request it answers and the
\* response bit set, for a cache hit, for the leader of a call and for the
\* requests that joined the call of another request.
C15_ReplyCarriesRequestId ==
    \A i \in ReqIds :
        (requests[i].pc = "done" /\ ~requests[i].rsp.nil) =>
            /\ requests[i].rsp.Id = requests[i].id
            /\ requests[i].rsp.Response

\* a leader, a request that joined its call and a cache hit have all been
\* answered
C15_Witness ==
    \E i, j, k \in ReqIds :
        /\ requests[i].pc = "done" /\ requests[i].call = i /\ ~requests[i].rsp.nil
        /\ j # i
        /\ requests[j].pc = "done" /\ requests[j].call = i /\ ~requests[j].rsp.nil
        /\ requests[k].pc = "done" /\ requests[k].hit /\ ~requests[k].rsp.nil

\* C16: with the flag -c at its default no request is answered from the
\* cache: every request that is answered went through the single-flight group.
C16_NoCacheAnswerWithoutFlag ==
    LET
        \* the default of the flag -c (config.go: flag.BoolVar(&config.useCache, "c", false, ...))
        UseCache == FALSE
    IN
    ~UseCache =>
        \A i \in ReqIds :
            requests[i].pc = "done" => (~requests[i].hit /\ requests[i].call # 0)

(***************************************************************************)
(* Claims about the cache, continued                                       *)
(***************************************************************************)
\* C17: Cache.Set admits no entry whose three sections are all empty and no
\* entry whose governing TTL (that of its first available record) is 0: the
\* store never holds such an entry, so a Get after such a Set finds nothing
\* that the Set put there.
C17_NoEmptyNoZeroTtlEntry ==
    \A k \in DOMAIN store :
        /\ ~(store[k].Answer = <<>> /\ store[k].Ns = <<>> /\ store[k].Extra = <<>>)
        /\ store[k].Ttl # 0

\* C18: a Get(req) made right after Set(req, rsp), for a rsp with a non-empty
\* section and a governing TTL of at least 1, returns a hit whose answer,
\* authority and additional sections are those of rsp, and leaves the entry in
\* the store.
C18_GetAfterSetHits ==
    [][(/\ lastSet.fresh
        /\ ~lastSet'.fresh
        /\ now' = now
        /\ lastGet'.key = lastSet.key
        /\ ~(lastSet.msg.Answer = <<>> /\ lastSet.msg.Ns = <<>> /\ lastSet.msg.Extra = <<>>)
        /\ getFirstAvailableSection(lastSet.msg).Ttl >= 1)
       => /\ lastGet'.hit
          /\ lastGet'.msg.Answer = lastSet.msg.Answer
          /\ lastGet'.msg.Ns = lastSet.msg.Ns
          /\ lastGet'.msg.Extra = lastSet.msg.Extra
          /\ lastSet.key \in DOMAIN store']_vars

(***************************************************************************)
(* Claims about the walk from the roots                                    *)
(***************************************************************************)
\* C19: in iterative mode a walk down a delegation chain with glue goes on to
\* its end: every exchange carries the request, every exchange after the first
\* goes to an address given as glue for the NS in the response before it, and
\* when the last response holds a record of the question's type Handle
\* returns it.
C19_WalkFollowsGlue ==
    LET
        \* the exchanges so far are a walk down from a root: the first went to a
        \* root, every one before the last read a referral with glue
        WalkFromRoot ==
            LET
                \* a referral: no answer, an NS record and an A record for its target in the
                \* additional section
                IsDelegation(rsp) ==
                    /\ ~rsp.nil
                    /\ rsp.Answer = <<>>
                    /\ rsp.Ns # <<>>
                    /\ rsp.Ns[1].Rrtype = dnsType.NS
                    /\ ARecords(rsp.Extra, rsp.Ns[1].Target) # <<>>
            IN
            LET
                \* lc.rootMap, as addresses
                RootAddrs == {RootAddr(i) : i \in 1..NumRoots}
            IN
            /\ exchanges # <<>>
            /\ exchanges[1].srv \in RootAddrs
            /\ \A k \in 1..(Len(exchanges) - 1) : IsDelegation(exchanges[k].rsp)
    IN
    LET
        \* the addresses of the glue records of a referral
        GlueOf(rsp) ==
            {ARecords(rsp.Extra, rsp.Ns[1].Target)[j].A :
                j \in 1..Len(ARecords(rsp.Extra, rsp.Ns[1].Target))}
    IN
    (recursive /\ WalkFromRoot) =>
        /\ ~crashed
        /\ \A k \in 1..Len(exchanges) : exchanges[k].msg = HandleMsg
        /\ \A k \in 2..Len(exchanges) : exchanges[k].srv \in GlueOf(exchanges[k - 1].rsp)
        /\ (/\ handleRet.done
            /\ HasType(exchanges[Len(exchanges)].rsp.Answer, HandleMsg.Question[1].Qtype)) =>
              /\ handleRet.err = "none"
              /\ handleRet.msg = exchanges[Len(exchanges)].rsp

(***************************************************************************)
(* Claims about CNAME answers                                              *)
(***************************************************************************)
\* a message that answers with a CNAME first and holds neither a record of
\* the type asked nor an A record
CnameOnly(m, qtype) ==
    /\ ~m.nil
    /\ m.Answer # <<>>
    /\ m.Answer[1].Rrtype = dnsType.CNAME
    /\ ~HasType(m.Answer, qtype)
    /\ ~HasType(m.Answer, dnsType.A)

\* the answer records of m after the first are what some server answered to
\* the question for the target of the first, possibly with more behind
FollowedByTarget(m) ==
    /\ Len(m.Answer) >= 2
    /\ \E k \in 1..Len(exchanges) :
          /\ exchanges[k].msg = newQuestionMsg(m.Answer[1].Target)
          /\ exchanges[k].rsp.Answer # <<>>
          /\ Len(m.Answer) > Len(exchanges[k].rsp.Answer)
          /\ SubSeq(m.Answer, 2, Len(exchanges[k].rsp.Answer) + 1) = exchanges[k].rsp.Answer

\* C20: no function of the lookup returns, and Handle does not return, a
\* message that answers with the CNAME alone; a returned message that starts
\* with a CNAME goes on with the answer records found for the CNAME target.
C20_CnameIsChased ==
    /\ \A t \in Threads :
          (threads[t].ret.err = "none" /\ ~threads[t].ret.msg.nil) =>
              /\ ~CnameOnly(threads[t].ret.msg, HandleMsg.Question[1].Qtype)
              /\ threads[t].ret.msg.Answer # <<>> =>
                    (threads[t].ret.msg.Answer[1].Rrtype = dnsType.CNAME
                        => FollowedByTarget(threads[t].ret.msg))
    /\ (handleRet.done /\ ~handleRet.msg.nil) =>
          /\ ~CnameOnly(handleRet.msg, HandleMsg.Question[1].Qtype)
          /\ handleRet.msg.Answer # <<>> =>
                (handleRet.msg.Answer[1].Rrtype = dnsType.CNAME
                    => FollowedByTarget(handleRet.msg))

\* Handle has returned an answer that starts with the CNAME read from the
\* first server and goes on with the records of its target
C20_Witness ==
    /\ handleRet.done
    /\ handleRet.err = "none"
    /\ ~handleRet.msg.nil
    /\ CnameOnly(exchanges[1].rsp, HandleMsg.Question[1].Qtype)
    /\ handleRet.msg.Answer # <<>>
    /\ handleRet.msg.Answer[1] = exchanges[1].rsp.Answer[1]
    /\ FollowedByTarget(handleRet.msg)

(***************************************************************************)
(* Claims about one exchange and its stream                                *)
(***************************************************************************)
\* C21: every stream opened for an exchange is closed by the time the exchange
\* is over, on every control path: once ExchangeWithContext has returned and
\* its dial has ended, no stream it opened is still open.
C21_EveryStreamIsClosed ==
    (xcall.pc = "done" /\ dialer # "dialing") => stream.state # "open"

\* C25: the message ReadMsg returns is the message that was written with
\* Connection.Write framing at the other end of the stream, for every split
\* of the bytes into reads: ReadMsg never fails to unpack what it read, and
\* what it hands over is the message written.
C25_CodecRoundTrip ==
    /\ reader.pc = "failed" => reader.err # "unpack"
    /\ reader.pc = "sent" => reader.msg = stream.sent

\* a response of more than 255 bytes was read with a first read of one byte
\* and a payload that came in several reads
C25_Witness ==
    /\ reader.pc = "sent"
    /\ reader.short
    /\ reader.reads >= 2
    /\ Len(Pack(stream.sent)) > 255
    /\ reader.msg = stream.sent

(***************************************************************************)
(* Claims about the worker pool and Shutdown                               *)
(***************************************************************************)
\* C22: at most 2 x W worker tasks are executing, and at most 2 x W lookups are
\* in progress end-to-end, counting the lookups whose Handle call has returned
\* on timeout.
C22_LookupsBoundedByWorkers ==
    LET
        \* lookups in progress: those of the running worker tasks and those of the
        \* goroutines of Handle calls that have returned
        LookupsInProgress == Running + Cardinality({i \in ReqIds : lookups[i]})
    IN
    /\ Running <= 2 * WorkerNum
    /\ LookupsInProgress <= 2 * WorkerNum

\* C23: Shutdown stops the listener, waits for the worker tasks and only then
\* closes the client pool: the pool is never closed while a worker task is
\* still running.
C23_PoolClosedAfterWorkers ==
    shutdown.pc = "closed" => Running = 0

(***************************************************************************)
(* Claims about the host-key callback                                      *)
(***************************************************************************)
\* the lines of the file whose host fields name the remote address
LinesOfRemote(lines) ==
    LET
        \* the forms of the remote address a host field can have
        NamesRemote(host) ==
            host \in {<<"h">>, <<"h", ":", "2", "2">>, <<"[", "h", "]", ":", "2", "2">>}
    IN
    {k \in 1..Len(lines) :
        /\ ~lines[k].bad
        /\ \E j \in 1..Len(lines[k].hosts) : NamesRemote(lines[k].hosts[j])}

\* C24: with host verification enabled the callback accepts a presented key
\* only if the known-hosts file was read and parsed, holds an entry for the
\* remote address with that key and no revoked entry for the remote address;
\* in every other case it rejects the key.
C24_HostKeyFailsClosed ==
    LET
        \* the file was read and parsed, it has an entry for the remote address with
        \* the key p and no entry for the remote address is marked revoked
        Vouched(cfg, p) ==
            /\ cfg.readable
            /\ \A k \in 1..Len(cfg.lines) : ~cfg.lines[k].bad
            /\ \E k \in LinesOfRemote(cfg.lines) : cfg.lines[k].pk = p
            /\ \A k \in LinesOfRemote(cfg.lines) : cfg.lines[k].marker # "revoked"
    IN
    (hostkey.pc = "checked" /\ ~hostkey.cfg.DoNotVerifyHost) =>
        (hostkey.result = "none" => Vouched(hostkey.cfg, hostkey.presented))

\* a key accepted from a file of two entries, one of them for another host
C24_Witness ==
    /\ hostkey.pc = "checked"
    /\ ~hostkey.cfg.DoNotVerifyHost
    /\ hostkey.result = "none"
    /\ Len(hostkey.cfg.lines) = 2
    /\ Cardinality(LinesOfRemote(hostkey.cfg.lines)) = 1

(***************************************************************************)
(* Claims about the reconnect of the client pool                           *)
(***************************************************************************)
\* C26: the transition to Reconnecting is taken at most once per outage: at
\* most one reconnect task (pool reset and retry loop) is active at any time.
C26_OneReconnectTask == NumTasks <= 1

\* C27: after a successful reconnect errCounter is 0 before a new signal is
\* counted: trackErrLoopback starts a pool reset only when at least 5 error
\* signals were counted since the pool was last Healthy again.
C27_NoResetBelowThresholdAfterReconnect ==
    (tracker.pc = "cmp" /\ errCounter >= maxErrThreshold)
        => watch.counted >= maxErrThreshold

\* C28: the pool is reset only after 5 exchanges failed consecutively: when a
\* reset is started, some run of 5 failed exchanges without a successful
\* exchange between them has occurred.
C28_ResetOnlyAfterConsecutiveFailures ==
    (tracker.pc = "cmp" /\ errCounter >= maxErrThreshold)
        => watch.longest >= maxErrThreshold

\* C29: the signal consumer never blocks: it does not wait for a reset or a
\* reconnect attempt, so every sender delivers its signal, every signal in
\* the channel is received and the consumer comes back for the next one,
\* also while the tunnel stays away for ever.
C29_SignalsAreConsumed ==
    /\ \A s \in Signals : (sending[s] > 0) ~> (tracker.err = s)
    /\ (tracker.pc = "chk") ~> (tracker.pc = "recv")

\* a reconnect goroutine sleeps between two failed attempts of an outage, a
\* sender is blocked on the full channel and the first of the signals has
\* just been received
C29_Witness ==
    /\ tracker.pc = "chk"
    /\ reconnecting /\ ~dialable
    /\ rtasks["sleep"] > 0
    /\ Len(echan) = maxErrThreshold - 1
    /\ sending[DNSDialErr] > 0

(***************************************************************************)
(* Claims about useNextNS                                                  *)
(***************************************************************************)
\* C30: useNextNS fails with a non-nil error whenever it returns without a
\* result: handleRecursive, back from its call of useNextNS with no message,
\* always holds an error.
C30_UseNextNSFailsWithError ==
    \A t \in Threads :
        (At(t, "handleRecursive", "tail") /\ threads[t].ret.msg.nil)
            => threads[t].ret.err # "none"

\* C31: useNextNS goes on to the next authority record when the name server of
\* one could not be resolved: while the context is live and authority records
\* are left, useNextNS returns only with an answer.
C31_UnresolvedNSIsSkipped ==
    [][\A t \in Threads :
          (/\ At(t, "useNextNS", Top(t).pc)
           /\ Top(t).i < Len(Top(t).rsp.Ns)
           /\ ctxs[Top(t).ctx] # "done"
           /\ Len(threads'[t].stack) < Len(threads[t].stack))
          => (threads'[t].ret.err = "none" /\ ~threads'[t].ret.msg.nil)]_vars

\* C32: a lookup never waits in Acquire for a client that the lookup itself
\* holds: no call of handleRecursive stands before Acquire, its context live,
\* with every client of the pool held by the calls below it on its own stack.
C32_NoWaitForOwnClient ==
    \A t \in Threads :
        (At(t, "handleRecursive", "call") /\ ctxs[Top(t).ctx] = "live") => Held(t) < MaxSize

\* C33: useNextNS reads the answer section of a sub-lookup result only when
\* the result is there: a sub-lookup from the roots for the name of a name
\* server that comes back without an error comes back with a message.
C33_SubLookupResultNotNil ==
    \A t \in Threads :
        (At(t, "useNextNS", "nsresolved") /\ threads[t].ret.err = "none")
            => ~threads[t].ret.msg.nil

C35_LookupGoroutineSendsOnce ==
    /\ [](Len(chans.msg) + Len(chans.err) <= 1)
    /\ [](At("go", "go", "send") => (chans.msg = <<>> /\ chans.err = <<>>))
    /\ <>(threads["go"].stack = <<>>)

C37_AnswerIsCachedOnReturn ==
    [][\A t \in Threads :
          /\ (/\ At(t, "handleRecursive", "asserted")
              /\ threads'[t] # threads[t]
              /\ threads[t].ret.err = "none"
              /\ HasType(threads[t].ret.msg.Answer, Top(t).msg.Question[1].Qtype))
             => LET g == Get(store', now', Top(t).msg)
                    rsp == threads[t].ret.msg
                IN /\ g.hit
                   /\ g.msg.Answer = rsp.Answer
                   /\ g.msg.Ns = rsp.Ns
                   /\ g.msg.Extra = rsp.Extra
          /\ (threads'[t] # threads[t] /\ \E k \in DOMAIN store' :
                                              k \notin DOMAIN store \/ store'[k] # store[k])
             => /\ At(t, "handleRecursive", "asserted")
                /\ threads[t].ret.err = "none"
                /\ Len(threads[t].ret.msg.Answer) > 0]_vars

(***************************************************************************)
(* Claims about the entries of the cache                                   *)
(***************************************************************************)
\* C38: an entry that a Set writes carries the TTL of the first record of the
\* first non-empty section of the response, taken in the order answer,
\* authority, additional, and the time of the Set as its timestamp.
C38_EntryTtlOfFirstSection ==
    [][\A k \in DOMAIN store' :
          (k \notin DOMAIN store \/ store'[k] # store[k])
          => LET msg == lastSet'.msg
             IN /\ lastSet'.fresh
                /\ k = lastSet'.key
                /\ store'[k].Ts = now
                /\ store'[k].Ttl = IF msg.Answer # <<>> THEN msg.Answer[1].Ttl
                                   ELSE IF msg.Ns # <<>> THEN msg.Ns[1].Ttl
                                   ELSE msg.Extra[1].Ttl]_vars

\* a Set, after the clock has moved, of a response whose answer and authority
\* sections begin with records of different TTLs: the entry has the TTL of
\* the answer record and the time of the Set
C38_Witness ==
    /\ lastSet.fresh
    /\ now > 0
    /\ lastSet.key \in DOMAIN store
    /\ lastSet.msg.Answer # <<>>
    /\ lastSet.msg.Ns # <<>>
    /\ lastSet.msg.Answer[1].Ttl # lastSet.msg.Ns[1].Ttl
    /\ store[lastSet.key].Ttl = lastSet.msg.Answer[1].Ttl
    /\ store[lastSet.key].Ts = now

\* C39: whatever the 32-bit TTL of an entry, Get takes the entry as expired
\* exactly when more than three times its TTL, in seconds, have passed since
\* it was stored.
C39_ExpiryAtThreeTimesTtl ==
    ttlEntry.got =>
        (ttlEntry.expired <=>
            Less64(Mul64(ttlEntry.Ttl \o <<0, 0, 0, 0>>, Int64(3)),
                   Int64(ttlEntry.at - ttlEntry.Ts)))

====
